---- MODULE Spec2Model ----
(***************************************************************************)
(* Roster reconciler of the classroom-engagement tracker:                  *)
(* syncClassroomFromCode (server/services/googleClassroom) and the         *)
(* withTransaction helper (server/db).  The relational tables are modelled *)
(* as functions from their conflict key to a row; a sync is a process that *)
(* walks through its provider calls and then its transaction.              *)
(***************************************************************************)
EXTENDS Integers, Sequences, FiniteSets, TLC

VARIABLES
    db,              \* committed contents of the five tables
    tx,              \* contents as seen inside the open transaction
    inTx,            \* BEGIN issued, neither COMMIT nor ROLLBACK yet
    pc,              \* "idle" | "exchange" | "profile" | "probeT" | "probeS" | "run" | "done" | "failed"
    plan,            \* the steps that remain after the probes, in program order
    tokens,          \* credentials returned by the code exchange
    userinfo,        \* raw userinfo response
    userProfile,     \* fetchUserProfile result
    teacherCourses,  \* teacherCourseResponse.data.courses ?? []
    studentCourses,  \* studentCourseResponse.data.courses ?? []
    courseBundles,   \* {course, teachers, students} per fetched course
    callerId,        \* teacherUser.id / studentUser.id
    summary,         \* summary.courses built so far
    result,          \* role of the returned SyncResult, or the failure kind
    path,            \* "none" | "teacher" | "student": the branch this sync took
    probes,          \* which course-list probes this sync has made
    requests,        \* provider requests of this sync that were answered, in order
    load,            \* the two roster loaders of the course being fetched
    writes,          \* write statements issued by this sync
    pre,             \* db when this sync started
    replay,          \* this sync sees the provider data of the previous one
    last,            \* provider data seen by the previous, committed sync
    syncs,           \* syncs started so far, replayed ones not counted
    limits,          \* how much the provider and the callers do in this behaviour
    sessions,        \* the transactions of syncs that run at the same time
    att,             \* committed sessions, attendance_records and bonus_events
    handlers         \* the HTTP requests of the attendance routes, in flight or answered

vars == <<db, tx, inTx, pc, plan, tokens, userinfo, userProfile, teacherCourses,
          studentCourses, courseBundles, callerId, summary, result, path, probes,
          requests, load, writes, pre, replay, last, syncs, limits, sessions,
          att, handlers>>

(***************************************************************************)
(* Bounds of the model.                                                    *)
(***************************************************************************)
MaxSyncs == 2
MaxTeachers == 2
MaxStudents == 1
MaxListed == 1

MaxSummarySyncs == 1
MaxSummaryListed == 2
MaxSummaryTeachers == 1
MaxSummaryStudents == 2

\* what a behaviour of SummarySpec is bounded by: one sync of up to two
\* classrooms with up to two students each
SummaryLimits ==
    [syncs |-> MaxSummarySyncs, replays |-> FALSE, listed |-> MaxSummaryListed,
     teachers |-> MaxSummaryTeachers, students |-> MaxSummaryStudents, pages |-> 1,
     requests |-> 0]

MaxPagedSyncs == 1
MaxPagedListed == 1
MaxPagedTeachers == 2
MaxPagedStudents == 1
MaxPages == 2

\* what a behaviour of PagedSpec is bounded by: one sync of one classroom whose
\* rosters come in up to MaxPages pages each
PagedLimits ==
    [syncs |-> MaxPagedSyncs, replays |-> FALSE, listed |-> MaxPagedListed,
     teachers |-> MaxPagedTeachers, students |-> MaxPagedStudents, pages |-> MaxPages,
     requests |-> 0]

MaxConcTeachers == 2
MaxConcStudents == 1

\* what a behaviour of ConcSpec is bounded by: two syncs of the same classroom
ConcLimits ==
    [syncs |-> 2, replays |-> FALSE, listed |-> 1,
     teachers |-> MaxConcTeachers, students |-> MaxConcStudents, pages |-> 1,
     requests |-> 0]

MaxFairSyncs == 1
MaxFairListed == 1
MaxFairTeachers == 1
MaxFairStudents == 0
MaxFairPages == 2

\* what a behaviour of FairPagedSpec is bounded by
FairLimits ==
    [syncs |-> MaxFairSyncs, replays |-> FALSE, listed |-> MaxFairListed,
     teachers |-> MaxFairTeachers, students |-> MaxFairStudents, pages |-> MaxFairPages,
     requests |-> 0]

\* what a behaviour of Spec is bounded by
SpecLimits ==
    [syncs |-> MaxSyncs, replays |-> TRUE, listed |-> MaxListed,
     teachers |-> MaxTeachers, students |-> MaxStudents, pages |-> 1,
     requests |-> 0]

NULL == "NULL"

UserOrder == <<"u1", "u2">>
UserIds == {UserOrder[i] : i \in DOMAIN UserOrder}
CourseIds == {"c1", "c2"}

\* JavaScript falsiness of an optional string (!value)
Falsy(v) == v \in {NULL, ""}

COALESCE(a, b) == IF a # NULL THEN a ELSE b

\* ?? : the left operand unless it is null or undefined
Nullish(a, b) == IF a # NULL THEN a ELSE b

Trim(v) ==
    CASE v = " " -> ""
      [] v = " mail-u1 " -> "mail-u1"
      [] v = " mail-u2 " -> "mail-u2"
      [] v = " lab " -> "lab"
      [] OTHER -> v

normalizeString(value) ==
    IF value = NULL THEN NULL
    ELSE IF Trim(value) # "" THEN Trim(value) ELSE NULL

(***************************************************************************)
(* Tables.                                                                 *)
(***************************************************************************)
NoRows == [k \in {} |-> NULL]

EmptyTables ==
    [users |-> NoRows, user_tokens |-> NoRows, courses |-> NoRows,
     course_teachers |-> {}, students |-> NoRows]

\* the row stored under key k becomes row; every other row is kept
Put(table, k, row) ==
    [x \in (DOMAIN table) \cup {k} |-> IF x = k THEN row ELSE table[x]]

\* users.id, generated by the database for a new row
UserRowId(googleUserId) == "usr-" \o googleUserId

NoProfile == [googleUserId |-> NULL, email |-> NULL, name |-> NULL, avatarUrl |-> NULL]

\* variant: the role of the latest observation wins
upsertUserLastRoleWins(t, profile, role) ==
    LET g == profile.googleUserId
        email == normalizeString(profile.email)
        row == IF g \in DOMAIN t.users
               THEN LET old == t.users[g]
                    IN  [old EXCEPT
                           !.email = COALESCE(email, old.email),
                           !.name = profile.name,
                           !.role = role,
                           !.avatar_url = COALESCE(profile.avatarUrl, old.avatar_url)]
               ELSE [id |-> UserRowId(g), google_user_id |-> g, email |-> email,
                     name |-> profile.name, role |-> role,
                     avatar_url |-> profile.avatarUrl]
    IN  [t |-> [t EXCEPT !.users = Put(t.users, g, row)], id |-> row.id]

\* variant: email = EXCLUDED.email, avatar_url = EXCLUDED.avatar_url
upsertUserClobber(t, profile, role) ==
    LET g == profile.googleUserId
        email == normalizeString(profile.email)
        row == [id |-> UserRowId(g), google_user_id |-> g, email |-> email,
                name |-> profile.name,
                role |-> IF g \in DOMAIN t.users /\ t.users[g].role = "teacher"
                         THEN "teacher" ELSE role,
                avatar_url |-> profile.avatarUrl]
    IN  [t |-> [t EXCEPT !.users = Put(t.users, g, row)], id |-> row.id]

upsertUser(t, profile, role) ==
    LET g == profile.googleUserId
        email == normalizeString(profile.email)
        row == IF g \in DOMAIN t.users
               THEN LET old == t.users[g]
                    IN  [old EXCEPT
                           !.email = COALESCE(email, old.email),
                           !.name = profile.name,
                           !.role = IF old.role = "teacher" THEN old.role ELSE role,
                           !.avatar_url = COALESCE(profile.avatarUrl, old.avatar_url)]
               ELSE [id |-> UserRowId(g), google_user_id |-> g, email |-> email,
                     name |-> profile.name, role |-> role,
                     avatar_url |-> profile.avatarUrl]
    IN  [t |-> [t EXCEPT !.users = Put(t.users, g, row)], id |-> row.id]

\* variant: teacher_user_id = EXCLUDED.teacher_user_id
upsertCourseClobber(t, course, primaryTeacherId) ==
    IF Falsy(course.id) \/ Falsy(course.name) THEN t
    ELSE LET row == [id |-> course.id, name |-> course.name,
                     google_course_id |-> course.id,
                     section |-> Nullish(course.section, NULL),
                     room |-> Nullish(course.room, NULL),
                     teacher_user_id |-> primaryTeacherId,
                     course_state |-> Nullish(course.courseState, NULL)]
         IN  [t EXCEPT !.courses = Put(t.courses, course.id, row)]

upsertCourse(t, course, primaryTeacherId) ==
    IF Falsy(course.id) \/ Falsy(course.name) THEN t
    ELSE LET row == [id |-> course.id, name |-> course.name,
                     google_course_id |-> course.id,
                     section |-> Nullish(course.section, NULL),
                     room |-> Nullish(course.room, NULL),
                     teacher_user_id |->
                        IF course.id \in DOMAIN t.courses
                        THEN COALESCE(primaryTeacherId, t.courses[course.id].teacher_user_id)
                        ELSE primaryTeacherId,
                     course_state |-> Nullish(course.courseState, NULL)]
         IN  [t EXCEPT !.courses = Put(t.courses, course.id, row)]

\* variant: no DELETE before the inserts
upsertCourseTeachersNoDelete(t, courseId, teacherIds) ==
    LET added == {<<courseId, teacherIds[i]>> : i \in 1..Len(teacherIds)}
    IN  [t EXCEPT !.course_teachers = t.course_teachers \cup added]

upsertCourseTeachers(t, courseId, teacherIds) ==
    LET kept == {ct \in t.course_teachers : ct[1] # courseId}
        added == {<<courseId, teacherIds[i]>> : i \in 1..Len(teacherIds)}
    IN  [t EXCEPT !.course_teachers = kept \cup added]

StudentRowId(courseId, studentUserId) == "gcls-" \o courseId \o "-" \o studentUserId

\* the row upsertStudent writes under a given id
StudentRow(studentRowId, student, course, userId) ==
    [id |-> studentRowId,
     name |-> Nullish(student.profile.fullName,
                Nullish(student.profile.givenName,
                  Nullish(student.profile.familyName, "Unnamed student"))),
     cohort |-> Nullish(course.section, Nullish(course.name, NULL)),
     course_id |-> course.id, user_id |-> userId,
     google_user_id |-> student.userId,
     email |-> normalizeString(Nullish(student.profile.emailAddress, NULL))]

\* variant: a serial surrogate id, one new row per import
upsertStudentSerialId(t, student, course, userId) ==
    IF Falsy(student.userId) \/ Falsy(course.id) THEN t
    ELSE LET studentRowId == "gcls-" \o ToString(Cardinality(DOMAIN t.students) + 1)
         IN  [t EXCEPT !.students =
                Put(t.students, studentRowId, StudentRow(studentRowId, student, course, userId))]

\* variant: the id is built from the course and the student's display name
upsertStudentKeyedByName(t, student, course, userId) ==
    IF Falsy(student.userId) \/ Falsy(course.id) THEN t
    ELSE LET studentRowId == StudentRowId(course.id, Nullish(student.profile.fullName, ""))
         IN  [t EXCEPT !.students =
                Put(t.students, studentRowId, StudentRow(studentRowId, student, course, userId))]

upsertStudent(t, student, course, userId) ==
    IF Falsy(student.userId) \/ Falsy(course.id) THEN t
    ELSE LET studentRowId == StudentRowId(course.id, student.userId)
         IN  [t EXCEPT !.students =
                Put(t.students, studentRowId, StudentRow(studentRowId, student, course, userId))]

\* variant: refresh_token = EXCLUDED.refresh_token
storeUserTokensOverwrite(t, userId, tok) ==
    IF Falsy(tok.access_token) THEN t
    ELSE LET row == [user_id |-> userId, access_token |-> tok.access_token,
                     refresh_token |-> Nullish(tok.refresh_token, NULL)]
         IN  [t EXCEPT !.user_tokens = Put(t.user_tokens, userId, row)]

storeUserTokens(t, userId, tok) ==
    IF Falsy(tok.access_token) THEN t
    ELSE LET row == [user_id |-> userId, access_token |-> tok.access_token,
                     refresh_token |->
                        IF userId \in DOMAIN t.user_tokens
                        THEN COALESCE(Nullish(tok.refresh_token, NULL),
                                      t.user_tokens[userId].refresh_token)
                        ELSE Nullish(tok.refresh_token, NULL)]
         IN  [t EXCEPT !.user_tokens = Put(t.user_tokens, userId, row)]

toProfile(person) ==
    IF Falsy(person.id) \/ Falsy(person.fullName) THEN NoProfile
    ELSE [googleUserId |-> person.id,
          email |-> normalizeString(Nullish(person.emailAddress, NULL)),
          name |-> person.fullName,
          avatarUrl |-> normalizeString(Nullish(person.photoUrl, NULL))]

(***************************************************************************)
(* What the provider can answer.                                           *)
(***************************************************************************)
AccountName(g) == "Acct " \o g
ClassName(g) == "Class " \o g
Mail(g) == "mail-" \o g
Photo(g) == "pic-" \o g

NoTokens == [access_token |-> NULL, refresh_token |-> NULL]

TokenSets ==
    {NoTokens,
     [access_token |-> "at", refresh_token |-> NULL],
     [access_token |-> "at", refresh_token |-> "rt"]}

NoUserinfo == [id |-> NULL, name |-> NULL, email |-> NULL, picture |-> NULL]

\* Identifiers are opaque to the code, so the first identity that reaches an
\* empty users table is called u1 and the first course of an empty courses
\* table c1: any other naming is the same behaviour with the names swapped.
FirstUser == UserOrder[1]
FirstCourse == "c1"

\* Optional fields come in two flavours per sync: in a rich sync the provider
\* sends every optional field (refresh token, email, picture, section, photo),
\* in a sparse sync none of them.
Rich == tokens.refresh_token # NULL

Userinfo(g) ==
    [id |-> g, name |-> AccountName(g),
     email |-> IF Rich THEN Mail(g) ELSE NULL,
     picture |-> IF Rich THEN Photo(g) ELSE NULL]

UserinfoSet ==
    {Userinfo(g) : g \in IF db.users = NoRows THEN {FirstUser} ELSE UserIds}
    \cup {[id |-> NULL, name |-> AccountName(FirstUser), email |-> NULL, picture |-> NULL],
          [id |-> FirstUser, name |-> NULL, email |-> Mail(FirstUser), picture |-> NULL]}

RawCourse(c, name, section) ==
    [id |-> c, name |-> name, section |-> section, room |-> NULL, courseState |-> "ACTIVE"]

RawCourses ==
    {RawCourse(c, "Bio " \o c, IF Rich THEN "S1" ELSE NULL) : c \in CourseIds}
    \cup {RawCourse(c, NULL, NULL) : c \in CourseIds}

\* sequences over S of length at most n
SeqsUpTo(S, n) == UNION {[1..k -> S] : k \in 0..n}

CourseLists ==
    {l \in SeqsUpTo(RawCourses, limits.listed) :
        /\ \A i, j \in 1..Len(l) : l[i].id = l[j].id => i = j
        /\ db.courses = NoRows /\ l # <<>> => l[1].id = FirstCourse}

Person(g, named) ==
    [id |-> g, fullName |-> IF named THEN ClassName(g) ELSE NULL,
     givenName |-> NULL, familyName |-> NULL,
     emailAddress |-> IF Rich THEN Mail(g) ELSE NULL,
     photoUrl |-> IF Rich THEN Photo(g) ELSE NULL]

TeacherEntries == {[userId |-> g, profile |-> Person(g, n)] : g \in UserIds, n \in BOOLEAN}

StudentEntries ==
    {[userId |-> g, profile |-> Person(g, n)] : g \in UserIds, n \in BOOLEAN}
    \cup {[userId |-> NULL, profile |-> Person(g, TRUE)] : g \in UserIds}

TeacherRosters ==
    {l \in SeqsUpTo(TeacherEntries, limits.teachers) :
        \A i, j \in 1..Len(l) : l[i].profile.id = l[j].profile.id => i = j}

StudentRosters ==
    {l \in SeqsUpTo(StudentEntries, limits.students) :
        \A i, j \in 1..Len(l) : l[i].profile.id = l[j].profile.id => i = j}

\* every name a row can carry, in ascending (ORDER BY name ASC) order
AllNames ==
    [i \in DOMAIN UserOrder |-> AccountName(UserOrder[i])]
    \o [i \in DOMAIN UserOrder |-> ClassName(UserOrder[i])]
    \o <<"Unnamed student">>

NameRank(n) == CHOOSE k \in DOMAIN AllNames : AllNames[k] = n

(***************************************************************************)
(* The transaction body of syncClassroomFromCode.                          *)
(***************************************************************************)
HasIdAndName(course) == ~(Falsy(course.id) \/ Falsy(course.name))

RECURSIVE ResolveTeachers(_, _, _, _)
\* teacher loop: upsert every teacher whose profile resolves, collect the ids
ResolveTeachers(t, teachers, i, teacherIds) ==
    IF i > Len(teachers) THEN [t |-> t, teacherIds |-> teacherIds]
    ELSE LET profile == toProfile(teachers[i].profile)
         IN  IF profile = NoProfile
             THEN ResolveTeachers(t, teachers, i + 1, teacherIds)
             ELSE LET upserted == upsertUser(t, profile, "teacher")
                  IN  ResolveTeachers(upserted.t, teachers, i + 1,
                                      Append(teacherIds, upserted.id))

RECURSIVE WriteStudentsMirror(_, _, _, _)
\* variant: the enrollments of the course mirror the roster, rows of students
\* that left the roster are deleted
WriteStudentsMirror(t, students, course, i) ==
    IF i > Len(students)
    THEN LET listed == {students[k].userId : k \in DOMAIN students}
             kept == {k \in DOMAIN t.students :
                         t.students[k].course_id # course.id
                         \/ t.students[k].google_user_id \in listed}
         IN  [t EXCEPT !.students = [k \in kept |-> t.students[k]]]
    ELSE LET profile == toProfile(students[i].profile)
         IN  IF profile = NoProfile
             THEN WriteStudentsMirror(t, students, course, i + 1)
             ELSE LET upserted == upsertUser(t, profile, "student")
                  IN  WriteStudentsMirror(upsertStudent(upserted.t, students[i], course, upserted.id),
                                          students, course, i + 1)

RECURSIVE WriteStudents(_, _, _, _)
\* student loop: upsert the identity and the enrollment of every resolvable student
WriteStudents(t, students, course, i) ==
    IF i > Len(students) THEN t
    ELSE LET profile == toProfile(students[i].profile)
         IN  IF profile = NoProfile
             THEN WriteStudents(t, students, course, i + 1)
             ELSE LET upserted == upsertUser(t, profile, "student")
                  IN  WriteStudents(upsertStudent(upserted.t, students[i], course, upserted.id),
                                    students, course, i + 1)

\* the teachers associated with a course: the resolved ones, else the caller
AssociatedTeachers(teacherIds, teacherUserId) ==
    IF Len(teacherIds) > 0 THEN teacherIds ELSE <<teacherUserId>>

\* variant: the caller is the primary teacher of every course they sync
PrimaryTeacherIdCaller(teacherIds, teacherUserId) == teacherUserId

\* teacherIds[0] ?? teacherUser.id
PrimaryTeacherId(teacherIds, teacherUserId) ==
    IF Len(teacherIds) > 0 THEN teacherIds[1] ELSE teacherUserId

\* one iteration of the loop over courseBundles
WriteTeacherCourse(t, bundle, teacherUserId) ==
    LET r == ResolveTeachers(t, bundle.teachers, 1, <<>>)
        primaryTeacherId == PrimaryTeacherId(r.teacherIds, teacherUserId)
        t1 == upsertCourse(r.t, bundle.course, primaryTeacherId)
        t2 == upsertCourseTeachers(t1, bundle.course.id,
                                   AssociatedTeachers(r.teacherIds, teacherUserId))
    IN  WriteStudents(t2, bundle.students, bundle.course, 1)

\* variant: studentCount counts the students whose profile resolves
TeacherSummaryEntryResolved(bundle) ==
    [id |-> bundle.course.id, name |-> bundle.course.name,
     section |-> Nullish(bundle.course.section, NULL),
     studentCount |-> Cardinality({k \in DOMAIN bundle.students :
                                     toProfile(bundle.students[k].profile) # NoProfile})]

TeacherSummaryEntry(bundle) ==
    [id |-> bundle.course.id, name |-> bundle.course.name,
     section |-> Nullish(bundle.course.section, NULL),
     studentCount |-> Len(bundle.students)]

\* the caller's own profile as a stand-in roster record
StubStudent(profile) ==
    [userId |-> profile.googleUserId,
     profile |-> [id |-> profile.googleUserId, fullName |-> profile.name,
                  givenName |-> NULL, familyName |-> NULL,
                  emailAddress |-> Nullish(profile.email, NULL),
                  photoUrl |-> Nullish(profile.avatarUrl, NULL)]]

\* one iteration of the loop over studentCourses
WriteStudentCourse(t, course, profile, studentUserId) ==
    IF ~HasIdAndName(course) THEN t
    ELSE upsertStudent(upsertCourse(t, course, NULL), StubStudent(profile), course, studentUserId)

StudentSummaryEntry(row) ==
    [id |-> row.course_id, name |-> Nullish(row.cohort, row.course_id),
     section |-> row.cohort, studentRecordId |-> row.id]

\* SELECT ... FROM students WHERE user_id = $1 ORDER BY name ASC: every order of
\* the caller's rows that ascends by name
SelectStudentRows(t, userId) ==
    LET ids == {k \in DOMAIN t.students : t.students[k].user_id = userId}
    IN  {s \in [1..Cardinality(ids) -> ids] :
            /\ \A i, j \in DOMAIN s : s[i] = s[j] => i = j
            /\ \A i, j \in DOMAIN s :
                  i < j => NameRank(t.students[s[i]].name) <= NameRank(t.students[s[j]].name)}

(***************************************************************************)
(* withTransaction.                                                        *)
(***************************************************************************)
\* what is durable after COMMIT
Commit(committed, working) == working

\* variant: the statements issued before the failure stay
RollbackKeepsWrites(committed, working) == working

\* what is durable after ROLLBACK
Rollback(committed, working) == committed

(***************************************************************************)
(* Control flow of syncClassroomFromCode after the probes.                 *)
(***************************************************************************)
Step(op, i) == [op |-> op, i |-> i]

Steps(op, n) == [i \in 1..n |-> Step(op, i)]

\* variant: each course is written as soon as its rosters are fetched
TeacherPlanStreaming(n) ==
    <<Step("begin", 0), Step("caller", 0)>>
    \o [k \in 1..(2 * n) |-> IF k % 2 = 1 THEN Step("fetch", (k + 1) \div 2)
                                          ELSE Step("course", k \div 2)]
    \o <<Step("commit", 0)>>

\* teacher branch: every roster fetch, then the transaction
TeacherPlan(n) ==
    Steps("fetch", n) \o <<Step("begin", 0), Step("caller", 0)>>
    \o Steps("course", n) \o <<Step("commit", 0)>>

\* student branch: the transaction only
StudentPlan(n) ==
    <<Step("begin", 0), Step("caller", 0)>> \o Steps("scourse", n)
    \o <<Step("read", 0), Step("commit", 0)>>

\* variant: only classrooms that have an id and a name count
IsTeacherPathUsableOnly(courses) == Len(SelectSeq(courses, HasIdAndName)) > 0

\* the branch taken after the teacher-classroom probe
IsTeacherPath(courses) == Len(courses) > 0

\* variant: the display name is not checked
fetchUserProfileUnchecked(data) ==
    IF Falsy(data.id) THEN NoProfile
    ELSE [googleUserId |-> data.id, email |-> data.email, name |-> data.name,
          avatarUrl |-> Nullish(data.picture, NULL)]

\* fetchUserProfile: the profile, or NoProfile when it throws
fetchUserProfile(data) ==
    IF Falsy(data.id) \/ Falsy(data.name) THEN NoProfile
    ELSE [googleUserId |-> data.id, email |-> data.email, name |-> data.name,
          avatarUrl |-> Nullish(data.picture, NULL)]

(***************************************************************************)
(* State after construction: empty tables, no sync running.                *)
(***************************************************************************)
NoLast ==
    [tokens |-> NoTokens, userinfo |-> NoUserinfo, teacherCourses |-> <<>>, courseBundles |-> <<>>,
     studentCourses |-> <<>>]

\* a roster loader before its first request
NoLoader == [roster |-> <<>>, nextPageToken |-> NULL, pages |-> <<>>, sent |-> <<>>, done |-> FALSE]

NoLoad == [teachers |-> NoLoader, students |-> NoLoader]

\* no sync runs beside the one the other variables describe
NoSessions == <<>>

\* the attendance tables, by primary key, and the ids generated so far
EmptyAttendance ==
    [sessions |-> NoRows, attendance_records |-> NoRows, bonus_events |-> NoRows, ids |-> 0]

NoHandlers == <<>>

\* the state before the first request, on given tables
InitOn(l, t, a, hs) ==
    /\ limits = l
    /\ sessions = NoSessions
    /\ att = a
    /\ handlers = hs
    /\ tx = EmptyTables
    /\ inTx = FALSE
    /\ pc = "idle"
    /\ plan = <<>>
    /\ tokens = NoTokens
    /\ userinfo = NoUserinfo
    /\ userProfile = NoProfile
    /\ teacherCourses = <<>>
    /\ studentCourses = <<>>
    /\ courseBundles = <<>>
    /\ load = NoLoad
    /\ callerId = NULL
    /\ summary = <<>>
    /\ result = "none"
    /\ path = "none"
    /\ probes = {}
    /\ requests = <<>>
    /\ writes = 0
    /\ db = t
    /\ pre = t
    /\ replay = FALSE
    /\ last = NoLast
    /\ syncs = 0

InitWith(l) == InitOn(l, EmptyTables, EmptyAttendance, NoHandlers)

Init == InitWith(SpecLimits)

locals == <<plan, tokens, userinfo, userProfile, teacherCourses, studentCourses,
            courseBundles, load, callerId, summary, path, probes>>

history == <<pre, replay, last, syncs, limits, sessions, att, handlers>>

\* one answered provider request
Request(op, arg, pageToken, code) ==
    [op |-> op, arg |-> arg, pageToken |-> pageToken, code |-> code]

\* provider calls this sync has made
calls == Len(requests)

\* POST /api/classroom/sync calls syncClassroomFromCode; a replayed sync is one
\* for which the provider holds the data it held for the previous sync
StartSync ==
    /\ pc \in {"idle", "done", "failed"}
    /\ \E again \in BOOLEAN :
          /\ IF again THEN limits.replays /\ pc = "done" /\ ~replay ELSE syncs < limits.syncs
          /\ replay' = again
          /\ last' = IF again
                     THEN [tokens |-> tokens, userinfo |-> userinfo,
                           teacherCourses |-> teacherCourses,
                           courseBundles |-> courseBundles,
                           studentCourses |-> studentCourses]
                     ELSE NoLast
          /\ syncs' = IF again THEN syncs ELSE syncs + 1
    /\ pre' = db
    /\ pc' = "exchange"
    /\ plan' = <<>>
    /\ tokens' = NoTokens
    /\ userinfo' = NoUserinfo
    /\ userProfile' = NoProfile
    /\ teacherCourses' = <<>>
    /\ studentCourses' = <<>>
    /\ courseBundles' = <<>>
    /\ load' = NoLoad
    /\ callerId' = NULL
    /\ summary' = <<>>
    /\ result' = "none"
    /\ path' = "none"
    /\ probes' = {}
    /\ requests' = <<>>
    /\ writes' = 0
    /\ UNCHANGED <<db, tx, inTx, limits, sessions, att, handlers>>

\* exchangeCodeForTokens succeeds
ExchangeCode ==
    /\ pc = "exchange"
    /\ \E tok \in IF replay THEN {last.tokens} ELSE TokenSets : tokens' = tok
    /\ requests' = Append(requests, Request("oauth2.getToken", NULL, NULL, 200))
    /\ pc' = "profile"
    /\ UNCHANGED <<db, tx, inTx, plan, userinfo, userProfile, teacherCourses,
                   studentCourses, courseBundles, load, callerId, summary, result, path,
                   probes, writes, history>>

\* oauthClient.getToken rejects (expired, consumed or malformed code)
ExchangeCodeFails ==
    /\ pc = "exchange"
    /\ requests' = Append(requests, Request("oauth2.getToken", NULL, NULL, 400))
    /\ pc' = "failed"
    /\ result' = "threw exchange"
    /\ UNCHANGED <<db, tx, inTx, locals, writes, history>>

FetchUserProfile ==
    /\ pc = "profile"
    /\ \E data \in IF replay THEN {last.userinfo} ELSE UserinfoSet :
          /\ userinfo' = data
          /\ userProfile' = fetchUserProfile(data)
          /\ IF fetchUserProfile(data) = NoProfile
             THEN pc' = "failed" /\ result' = "threw profile"
             ELSE pc' = "probeT" /\ result' = result
    /\ requests' = Append(requests, Request("userinfo.get", NULL, NULL, 200))
    /\ UNCHANGED <<db, tx, inTx, plan, tokens, teacherCourses, studentCourses,
                   courseBundles, load, callerId, summary, path, probes, writes, history>>

\* a course-list probe answers with a list (an absent list is written as the
\* empty one, which is what ?? [] makes of it), or is rejected with 403 or with
\* another error
ProbeAnswers(replayed) ==
    IF replay THEN {[code |-> 200, courses |-> replayed]}
    ELSE {[code |-> 200, courses |-> l] : l \in CourseLists}
         \cup {[code |-> c, courses |-> <<>>] : c \in {403, 500}}

\* variant: no .catch on the probe, every rejection propagates
catchForbiddenMissing(answer) ==
    IF answer.code # 200 THEN [threw |-> TRUE, courses |-> <<>>]
    ELSE [threw |-> FALSE, courses |-> answer.courses]

\* variant: .catch(() => ({data: {courses: []}})), every rejection is an empty list
catchForbiddenOrAny(answer) ==
    IF answer.code # 200 THEN [threw |-> FALSE, courses |-> <<>>]
    ELSE [threw |-> FALSE, courses |-> answer.courses]

\* .catch(error => code === 403 ? {data: {courses: []}} : throw) and
\* response.data.courses ?? []
catchForbidden(answer) ==
    IF answer.code = 403 THEN [threw |-> FALSE, courses |-> <<>>]
    ELSE IF answer.code # 200 THEN [threw |-> TRUE, courses |-> <<>>]
    ELSE [threw |-> FALSE, courses |-> answer.courses]

\* the exception leaves syncClassroomFromCode: its locals are gone
Unwind ==
    /\ plan' = <<>>
    /\ tokens' = NoTokens
    /\ userProfile' = NoProfile
    /\ teacherCourses' = <<>>
    /\ studentCourses' = <<>>
    /\ courseBundles' = <<>>
    /\ load' = NoLoad
    /\ callerId' = NULL
    /\ summary' = <<>>

\* classroom.courses.list({teacherId: "me"})
TeacherProbe ==
    /\ pc = "probeT"
    /\ \E answer \in ProbeAnswers(last.teacherCourses) :
          LET caught == catchForbidden(answer)
              courses == caught.courses
          IN  /\ requests' = Append(requests, Request("courses.list", "teacherId", NULL, answer.code))
              /\ IF caught.threw
                 THEN /\ pc' = "failed"
                      /\ result' = "threw provider"
                      /\ path' = path
                      /\ Unwind
                 ELSE /\ teacherCourses' = courses
                      /\ IF IsTeacherPath(courses)
                         THEN /\ path' = "teacher"
                              /\ plan' = TeacherPlan(Len(SelectSeq(courses, HasIdAndName)))
                              /\ pc' = "run"
                         ELSE /\ path' = path
                              /\ plan' = plan
                              /\ pc' = "probeS"
                      /\ UNCHANGED <<tokens, userProfile, studentCourses, courseBundles,
                                     load, callerId, summary, result>>
    /\ probes' = probes \cup {"teacher"}
    /\ UNCHANGED <<db, tx, inTx, userinfo, writes, history>>

\* classroom.courses.list({studentId: "me"})
StudentProbe ==
    /\ pc = "probeS"
    /\ \E answer \in ProbeAnswers(last.studentCourses) :
          LET caught == catchForbidden(answer)
          IN  /\ requests' = Append(requests, Request("courses.list", "studentId", NULL, answer.code))
              /\ IF caught.threw
                 THEN /\ pc' = "failed"
                      /\ result' = "threw provider"
                      /\ path' = path
                      /\ Unwind
                 ELSE /\ studentCourses' = caught.courses
                      /\ plan' = StudentPlan(Len(caught.courses))
                      /\ path' = "student"
                      /\ pc' = "run"
                      /\ UNCHANGED <<tokens, userProfile, teacherCourses, courseBundles,
                                     load, callerId, summary, result>>
    /\ probes' = probes \cup {"student"}
    /\ UNCHANGED <<db, tx, inTx, userinfo, writes, history>>

AtStep(op) == pc = "run" /\ plan # <<>> /\ Head(plan).op = op

\* the course whose rosters the fetch step at the head of the plan loads
FetchedCourse == SelectSeq(teacherCourses, HasIdAndName)[Head(plan).i]

\* Promise.all([loadCourseTeachers, loadCourseStudents]) for the next course
\* that has an id and a name, each roster answered in one page
FetchBundle ==
    /\ AtStep("fetch")
    /\ LET i == Head(plan).i
           course == FetchedCourse
       IN  /\ \E teachers \in IF replay THEN {last.courseBundles[i].teachers} ELSE TeacherRosters,
                 students \in IF replay THEN {last.courseBundles[i].students} ELSE StudentRosters :
                 courseBundles' = Append(courseBundles,
                     [course |-> course, teachers |-> teachers, students |-> students])
           /\ requests' = requests \o <<Request("teachers.list", course.id, NULL, 200),
                                        Request("students.list", course.id, NULL, 200)>>
    /\ plan' = Tail(plan)
    /\ UNCHANGED <<db, tx, inTx, pc, tokens, userinfo, userProfile, teacherCourses,
                   studentCourses, load, callerId, summary, result, path, probes, writes,
                   history>>

\* the continuation token the provider puts on its k-th page when more follow
PageToken(k) == "page-" \o ToString(k + 1)

\* the entries a roster of the given kind is made of, and how many it may hold
RosterEntries(kind) == IF kind = "teachers" THEN TeacherEntries ELSE StudentEntries

RosterLimit(kind) == IF kind = "teachers" THEN limits.teachers ELSE limits.students

\* what the provider may answer to the next page request of a loader: some more
\* entries of the roster (or no list at all), and a continuation token unless
\* this is the last page, which carries no token or an empty one; a roster has
\* at most limits.pages pages
Pages(kind, loader) ==
    LET k == Len(loader.pages) + 1
        more == {l \in SeqsUpTo(RosterEntries(kind), RosterLimit(kind) - Len(loader.roster)) :
                    LET all == loader.roster \o l
                    IN  \A i, j \in 1..Len(all) : all[i].profile.id = all[j].profile.id => i = j}
        next == IF k < limits.pages THEN {NULL, "", PageToken(k)} ELSE {NULL, ""}
    IN  IF k > limits.pages THEN {}
        ELSE {[present |-> TRUE, items |-> l, nextPageToken |-> n] : l \in more, n \in next}
             \cup {[present |-> FALSE, items |-> <<>>, nextPageToken |-> n] : n \in next}

\* variant: teachers = response.data.teachers, the latest page replaces the list
loadPageLatestOnly(loader, page) ==
    [roster |-> IF page.present THEN page.items ELSE loader.roster,
     nextPageToken |-> Nullish(page.nextPageToken, NULL),
     pages |-> Append(loader.pages, page),
     sent |-> Append(loader.sent, loader.nextPageToken),
     done |-> Falsy(Nullish(page.nextPageToken, NULL))]

\* variant: while (nextPageToken !== undefined)
loadPageUntilUndefined(loader, page) ==
    [roster |-> IF page.present THEN loader.roster \o page.items ELSE loader.roster,
     nextPageToken |-> Nullish(page.nextPageToken, NULL),
     pages |-> Append(loader.pages, page),
     sent |-> Append(loader.sent, loader.nextPageToken),
     done |-> Nullish(page.nextPageToken, NULL) = NULL]

\* one iteration of the do ... while (nextPageToken) loop of loadCourseTeachers
\* and loadCourseStudents, given the page the provider answered with; pages and
\* sent record the answers and the tokens of the requests
loadPage(loader, page) ==
    [roster |-> IF page.present THEN loader.roster \o page.items ELSE loader.roster,
     nextPageToken |-> Nullish(page.nextPageToken, NULL),
     pages |-> Append(loader.pages, page),
     sent |-> Append(loader.sent, loader.nextPageToken),
     done |-> Falsy(Nullish(page.nextPageToken, NULL))]

\* a roster loader of the course being fetched gets the answer to its request
LoadPage(kind) ==
    /\ AtStep("fetch")
    /\ ~load[kind].done
    /\ \E page \in Pages(kind, load[kind]) :
          load' = [load EXCEPT ![kind] = loadPage(load[kind], page)]
    /\ requests' = Append(requests,
          Request(kind \o ".list", FetchedCourse.id, load[kind].nextPageToken, 200))
    /\ UNCHANGED <<db, tx, inTx, pc, plan, tokens, userinfo, userProfile, teacherCourses,
                   studentCourses, courseBundles, callerId, summary, result, path, probes,
                   writes, history>>

LoadTeachersPage == LoadPage("teachers")

LoadStudentsPage == LoadPage("students")

\* both loaders returned: Promise.all resolves and the bundle is pushed
PushBundle ==
    /\ AtStep("fetch")
    /\ load.teachers.done
    /\ load.students.done
    /\ courseBundles' = Append(courseBundles,
          [course |-> FetchedCourse, teachers |-> load.teachers.roster,
           students |-> load.students.roster])
    /\ load' = NoLoad
    /\ plan' = Tail(plan)
    /\ UNCHANGED <<db, tx, inTx, pc, tokens, userinfo, userProfile, teacherCourses,
                   studentCourses, callerId, summary, result, path, probes, requests,
                   writes, history>>

\* the userinfo request, or a roster request of the course being fetched, is
\* rejected, with 403 or with any other error
ProviderCallFails ==
    /\ \/ pc = "profile"
       \/ AtStep("fetch")
    /\ \E code \in {403, 500}, kind \in {"teachers", "students"} :
          /\ ~load[kind].done
          /\ requests' = Append(requests,
                IF pc = "profile" THEN Request("userinfo.get", NULL, NULL, code)
                ELSE Request(kind \o ".list", FetchedCourse.id, load[kind].nextPageToken, code))
    /\ pc' = "failed"
    /\ result' = "threw provider"
    /\ db' = IF inTx THEN Rollback(db, tx) ELSE db
    /\ tx' = db'
    /\ inTx' = FALSE
    /\ Unwind
    /\ UNCHANGED <<userinfo, path, probes, writes, history>>

\* withTransaction: pool.connect() and BEGIN
Begin ==
    /\ AtStep("begin")
    /\ tx' = db
    /\ inTx' = TRUE
    /\ plan' = Tail(plan)
    /\ UNCHANGED <<db, pc, tokens, userinfo, userProfile, teacherCourses,
                   studentCourses, courseBundles, load, callerId, summary, result, path,
                   probes, requests, writes, history>>

\* upsertUser(client, userProfile, role) and storeUserTokens
TxCaller ==
    /\ AtStep("caller")
    /\ LET upserted == upsertUser(tx, userProfile, path)
       IN  /\ callerId' = upserted.id
           /\ tx' = storeUserTokens(upserted.t, upserted.id, tokens)
    /\ writes' = writes + 1
    /\ plan' = Tail(plan)
    /\ UNCHANGED <<db, inTx, pc, tokens, userinfo, userProfile, teacherCourses,
                   studentCourses, courseBundles, load, summary, result, path, probes,
                   requests, history>>

\* teacher branch: the writes of one course bundle
TxTeacherCourse ==
    /\ AtStep("course")
    /\ LET bundle == courseBundles[Head(plan).i]
       IN  /\ tx' = WriteTeacherCourse(tx, bundle, callerId)
           /\ summary' = Append(summary, TeacherSummaryEntry(bundle))
    /\ writes' = writes + 1
    /\ plan' = Tail(plan)
    /\ UNCHANGED <<db, inTx, pc, tokens, userinfo, userProfile, teacherCourses,
                   studentCourses, courseBundles, load, callerId, result, path, probes,
                   requests, history>>

\* student branch: the writes of one enrolled course
TxStudentCourse ==
    /\ AtStep("scourse")
    /\ LET course == studentCourses[Head(plan).i]
       IN  /\ tx' = WriteStudentCourse(tx, course, userProfile, callerId)
           /\ writes' = IF HasIdAndName(course) THEN writes + 1 ELSE writes
    /\ plan' = Tail(plan)
    /\ UNCHANGED <<db, inTx, pc, tokens, userinfo, userProfile, teacherCourses,
                   studentCourses, courseBundles, load, callerId, summary, result, path,
                   probes, requests, history>>

\* student branch: the caller's enrollment rows, read through the transaction's client
TxReadSummary ==
    /\ AtStep("read")
    /\ \E rows \in SelectStudentRows(tx, callerId) :
          summary' = [i \in DOMAIN rows |-> StudentSummaryEntry(tx.students[rows[i]])]
    /\ plan' = Tail(plan)
    /\ UNCHANGED <<db, tx, inTx, pc, tokens, userinfo, userProfile, teacherCourses,
                   studentCourses, courseBundles, load, callerId, result, path, probes,
                   requests, writes, history>>

\* the handler returned: COMMIT, and the sync returns its result
TxCommit ==
    /\ AtStep("commit")
    /\ inTx
    /\ db' = Commit(db, tx)
    /\ tx' = db'
    /\ inTx' = FALSE
    /\ plan' = Tail(plan)
    /\ pc' = "done"
    /\ result' = path
    /\ UNCHANGED <<tokens, userinfo, userProfile, teacherCourses, studentCourses,
                   courseBundles, load, callerId, summary, path, probes, requests, writes,
                   history>>

\* a statement of the transaction (BEGIN and COMMIT included) throws: ROLLBACK, rethrow
TxFails ==
    /\ pc = "run"
    /\ plan # <<>>
    /\ Head(plan).op \in {"begin", "caller", "course", "scourse", "read", "commit"}
    /\ db' = Rollback(db, IF inTx THEN tx ELSE db)
    /\ tx' = db'
    /\ inTx' = FALSE
    /\ pc' = "failed"
    /\ result' = "threw database"
    /\ Unwind
    /\ UNCHANGED <<userinfo, path, probes, requests, writes, history>>

Next ==
    \/ StartSync
    \/ ExchangeCode
    \/ ExchangeCodeFails
    \/ FetchUserProfile
    \/ TeacherProbe
    \/ StudentProbe
    \/ FetchBundle
    \/ ProviderCallFails
    \/ Begin
    \/ TxCaller
    \/ TxTeacherCourse
    \/ TxStudentCourse
    \/ TxReadSummary
    \/ TxCommit
    \/ TxFails

Spec == Init /\ [][Next]_vars

\* the steps of syncClassroomFromCode with the rosters loaded page by page
PagedNext ==
    \/ StartSync
    \/ ExchangeCode
    \/ ExchangeCodeFails
    \/ FetchUserProfile
    \/ TeacherProbe
    \/ StudentProbe
    \/ LoadTeachersPage
    \/ LoadStudentsPage
    \/ PushBundle
    \/ ProviderCallFails
    \/ Begin
    \/ TxCaller
    \/ TxTeacherCourse
    \/ TxStudentCourse
    \/ TxReadSummary
    \/ TxCommit
    \/ TxFails

PagedSpec == InitWith(PagedLimits) /\ [][PagedNext]_vars

\* the steps in which a call of the running sync returns and the sync goes on
Progress ==
    \/ ExchangeCode
    \/ FetchUserProfile
    \/ TeacherProbe
    \/ StudentProbe
    \/ LoadTeachersPage
    \/ LoadStudentsPage
    \/ PushBundle
    \/ Begin
    \/ TxCaller
    \/ TxTeacherCourse
    \/ TxStudentCourse
    \/ TxReadSummary
    \/ TxCommit

\* every awaited call settles and the event loop then runs the continuation:
\* a sync that can go on does go on, unless a call is rejected first
FairPagedSpec == InitWith(FairLimits) /\ [][PagedNext]_vars /\ WF_vars(Progress)

\* the same program, bounded by SummaryLimits
SummarySpec == InitWith(SummaryLimits) /\ [][Next]_vars

(***************************************************************************)
(* Two syncs whose transactions run at the same time, each on its own      *)
(* pooled connection (PostgreSQL, READ COMMITTED): a statement sees the    *)
(* committed rows and the rows its own transaction wrote, locks the rows   *)
(* it writes until COMMIT or ROLLBACK, and waits while the other           *)
(* transaction holds the lock of a row it is about to write.               *)
(***************************************************************************)
Sessions == {1, 2}

Other(s) == 3 - s

\* the two syncs see the classroom under different names
CourseNameSeen(s) == IF s = 1 THEN "Bio c1" ELSE "Chem c1"

\* what a sync holds when it enters withTransaction: its caller, its branch
\* and what it fetched for the classroom c1
SessionData(s) ==
    LET profile == fetchUserProfile(Userinfo(UserOrder[s]))
        tok == [access_token |-> "at", refresh_token |-> NULL]
        course == RawCourse("c1", CourseNameSeen(s), NULL)
    IN  {[path |-> "teacher", profile |-> profile, tok |-> tok, course |-> course,
          teachers |-> tr, students |-> st] : tr \in TeacherRosters, st \in StudentRosters}
        \cup {[path |-> "student", profile |-> profile, tok |-> tok, course |-> course,
                teachers |-> <<>>, students |-> <<>>]}

NoStudent == [userId |-> NULL, profile |-> Person(NULL, FALSE)]

\* one client.query of the transaction body, with its parameters
Statement(op, profile, role, course, userId, student, tok) ==
    [op |-> op, profile |-> profile, role |-> role, course |-> course, userId |-> userId,
     student |-> student, tok |-> tok]

UpsertUserStatement(profile, role) ==
    Statement("upsertUser", profile, role, RawCourse(NULL, NULL, NULL), NULL, NoStudent, NoTokens)

Resolves(entry) == toProfile(entry.profile) # NoProfile

\* the statements of the transaction body, in program order
SessionStatements(d) ==
    LET none == RawCourse(NULL, NULL, NULL)
        callerId_ == UserRowId(d.profile.googleUserId)
        caller == <<UpsertUserStatement(d.profile, d.path),
                    Statement("storeUserTokens", NoProfile, NULL, none, callerId_, NoStudent, d.tok)>>
        teachers == SelectSeq(d.teachers, Resolves)
        teacherIds == [i \in DOMAIN teachers |-> UserRowId(teachers[i].profile.id)]
        associated == AssociatedTeachers(teacherIds, callerId_)
        students == SelectSeq(d.students, Resolves)
    IN  IF d.path = "teacher"
        THEN caller
             \o [i \in DOMAIN teachers |->
                   UpsertUserStatement(toProfile(teachers[i].profile), "teacher")]
             \o <<Statement("upsertCourse", NoProfile, NULL, d.course,
                             PrimaryTeacherId(teacherIds, callerId_), NoStudent, NoTokens),
                   Statement("deleteCourseTeachers", NoProfile, NULL, d.course, NULL,
                             NoStudent, NoTokens)>>
             \o [i \in DOMAIN associated |->
                   Statement("insertCourseTeacher", NoProfile, NULL, d.course, associated[i],
                             NoStudent, NoTokens)]
             \o [k \in 1..(2 * Len(students)) |->
                   LET student == students[(k + 1) \div 2]
                   IN  IF k % 2 = 1
                       THEN UpsertUserStatement(toProfile(student.profile), "student")
                       ELSE Statement("upsertStudent", NoProfile, NULL, d.course,
                                      UserRowId(student.profile.id), student, NoTokens)]
        ELSE caller
             \o (IF HasIdAndName(d.course)
                 THEN <<Statement("upsertCourse", NoProfile, NULL, d.course, NULL,
                                  NoStudent, NoTokens),
                        Statement("upsertStudent", NoProfile, NULL, d.course, callerId_,
                                  StubStudent(d.profile), NoTokens)>>
                 ELSE <<>>)

\* the tables after the statement, given the tables it sees
Apply(stmt, t) ==
    CASE stmt.op = "upsertUser" -> upsertUser(t, stmt.profile, stmt.role).t
      [] stmt.op = "storeUserTokens" -> storeUserTokens(t, stmt.userId, stmt.tok)
      [] stmt.op = "upsertCourse" -> upsertCourse(t, stmt.course, stmt.userId)
      [] stmt.op = "deleteCourseTeachers" ->
            [t EXCEPT !.course_teachers = {ct \in @ : ct[1] # stmt.course.id}]
      [] stmt.op = "insertCourseTeacher" ->
            [t EXCEPT !.course_teachers = @ \cup {<<stmt.course.id, stmt.userId>>}]
      [] stmt.op = "upsertStudent" -> upsertStudent(t, stmt.student, stmt.course, stmt.userId)

NoKeys == [users |-> {}, user_tokens |-> {}, courses |-> {}, students |-> {}, course_teachers |-> {}]

\* the rows the statement writes and locks, by table and key, given the tables
\* it sees (ON CONFLICT DO NOTHING writes nothing when the row is there)
RowsWritten(stmt, t) ==
    CASE stmt.op = "upsertUser" -> [NoKeys EXCEPT !.users = {stmt.profile.googleUserId}]
      [] stmt.op = "storeUserTokens" ->
            IF Falsy(stmt.tok.access_token) THEN NoKeys
            ELSE [NoKeys EXCEPT !.user_tokens = {stmt.userId}]
      [] stmt.op = "upsertCourse" ->
            IF HasIdAndName(stmt.course) THEN [NoKeys EXCEPT !.courses = {stmt.course.id}]
            ELSE NoKeys
      [] stmt.op = "deleteCourseTeachers" ->
            [NoKeys EXCEPT !.course_teachers = {ct \in t.course_teachers : ct[1] = stmt.course.id}]
      [] stmt.op = "insertCourseTeacher" ->
            [NoKeys EXCEPT !.course_teachers = {<<stmt.course.id, stmt.userId>>}]
      [] stmt.op = "upsertStudent" ->
            IF Falsy(stmt.student.userId) \/ Falsy(stmt.course.id) THEN NoKeys
            ELSE [NoKeys EXCEPT !.students = {StudentRowId(stmt.course.id, stmt.student.userId)}]

\* the rows a transaction has written and not yet committed, by table and key;
\* for course_teachers, whether the pair is there
NoWrites ==
    [users |-> NoRows, user_tokens |-> NoRows, courses |-> NoRows, students |-> NoRows,
     course_teachers |-> NoRows]

OverlayRows(committed, written) ==
    [k \in (DOMAIN committed) \cup (DOMAIN written) |->
        IF k \in DOMAIN written THEN written[k] ELSE committed[k]]

\* what a transaction sees, and what is committed when it commits
Overlay(committed, w) ==
    [users |-> OverlayRows(committed.users, w.users),
     user_tokens |-> OverlayRows(committed.user_tokens, w.user_tokens),
     courses |-> OverlayRows(committed.courses, w.courses),
     students |-> OverlayRows(committed.students, w.students),
     course_teachers |->
        {ct \in committed.course_teachers \cup DOMAIN w.course_teachers :
            IF ct \in DOMAIN w.course_teachers THEN w.course_teachers[ct] ELSE TRUE}]

RecordRows(written, keys, after) ==
    [k \in (DOMAIN written) \cup keys |-> IF k \in keys THEN after[k] ELSE written[k]]

\* the writes of a transaction after a statement that wrote the given keys
RecordWrites(w, keys, after) ==
    [users |-> RecordRows(w.users, keys.users, after.users),
     user_tokens |-> RecordRows(w.user_tokens, keys.user_tokens, after.user_tokens),
     courses |-> RecordRows(w.courses, keys.courses, after.courses),
     students |-> RecordRows(w.students, keys.students, after.students),
     course_teachers |->
        [ct \in (DOMAIN w.course_teachers) \cup keys.course_teachers |->
            IF ct \in keys.course_teachers THEN ct \in after.course_teachers
            ELSE w.course_teachers[ct]]]

\* some row of the keys is locked by a transaction with the given writes
Conflict(keys, w) ==
    \/ keys.users \cap DOMAIN w.users # {}
    \/ keys.user_tokens \cap DOMAIN w.user_tokens # {}
    \/ keys.courses \cap DOMAIN w.courses # {}
    \/ keys.students \cap DOMAIN w.students # {}
    \/ keys.course_teachers \cap DOMAIN w.course_teachers # {}

NextStatement(s) == SessionStatements(sessions[s].data)[sessions[s].i]

HasStatement(s) ==
    sessions[s].pc = "active" /\ sessions[s].i <= Len(SessionStatements(sessions[s].data))

\* the next statement of the session waits for a row lock of the other one
Blocked(s) ==
    /\ HasStatement(s)
    /\ sessions[Other(s)].pc = "active"
    /\ Conflict(RowsWritten(NextStatement(s), Overlay(db, sessions[s].writes)),
                sessions[Other(s)].writes)

syncVars == <<tx, inTx, pc, plan, tokens, userinfo, userProfile, teacherCourses,
              studentCourses, courseBundles, callerId, summary, result, path, probes,
              requests, load, writes, pre, replay, last, syncs, limits>>

\* both syncs have fetched and are about to BEGIN
ConcInit ==
    /\ limits = ConcLimits
    /\ db = EmptyTables
    /\ tx = EmptyTables
    /\ inTx = FALSE
    /\ pc = "idle"
    /\ plan = <<>>
    /\ tokens = NoTokens
    /\ userinfo = NoUserinfo
    /\ userProfile = NoProfile
    /\ teacherCourses = <<>>
    /\ studentCourses = <<>>
    /\ courseBundles = <<>>
    /\ load = NoLoad
    /\ callerId = NULL
    /\ summary = <<>>
    /\ result = "none"
    /\ path = "none"
    /\ probes = {}
    /\ requests = <<>>
    /\ writes = 0
    /\ pre = EmptyTables
    /\ replay = FALSE
    /\ last = NoLast
    /\ syncs = 0
    /\ att = EmptyAttendance
    /\ handlers = NoHandlers
    /\ sessions \in {[s \in Sessions |->
                        [pc |-> "active", data |-> IF s = 1 THEN d1 ELSE d2, i |-> 1,
                         writes |-> NoWrites]] :
                      d1 \in SessionData(1), d2 \in SessionData(2)}

\* the next client.query of a session runs
ExecuteStatement(s) ==
    /\ HasStatement(s)
    /\ ~Blocked(s)
    /\ LET sees == Overlay(db, sessions[s].writes)
           stmt == NextStatement(s)
       IN  sessions' = [sessions EXCEPT
                          ![s].writes = RecordWrites(@, RowsWritten(stmt, sees), Apply(stmt, sees)),
                          ![s].i = @ + 1]
    /\ UNCHANGED <<db, syncVars, att, handlers>>

\* the handler returned: COMMIT
CommitSession(s) ==
    /\ sessions[s].pc = "active"
    /\ ~HasStatement(s)
    /\ db' = Commit(db, Overlay(db, sessions[s].writes))
    /\ sessions' = [sessions EXCEPT ![s].pc = "committed", ![s].writes = NoWrites]
    /\ UNCHANGED <<syncVars, att, handlers>>

\* each session waits for a lock of the other: the database ends the wait by
\* failing the statement of one of them, whose handler throws: ROLLBACK
AbortDeadlocked(s) ==
    /\ Blocked(s)
    /\ Blocked(Other(s))
    /\ db' = Rollback(db, Overlay(db, sessions[s].writes))
    /\ sessions' = [sessions EXCEPT ![s].pc = "aborted", ![s].writes = NoWrites]
    /\ UNCHANGED <<syncVars, att, handlers>>

ConcNext ==
    \/ \E s \in Sessions : ExecuteStatement(s)
    \/ \E s \in Sessions : CommitSession(s)
    \/ \E s \in Sessions : AbortDeadlocked(s)

ConcSpec == ConcInit /\ [][ConcNext]_vars

(***************************************************************************)
(* POST /api/classroom/sync: what the route answers for an outcome of       *)
(* syncClassroomFromCode.                                                  *)
(***************************************************************************)
SyncFailed == "Failed to sync Google Classroom data"

SyncRoute(codeIsString, outcome) ==
    IF ~codeIsString THEN [status |-> 400, error |-> "code is required"]
    ELSE IF outcome \in {"teacher", "student"} THEN [status |-> 200, error |-> NULL]
    ELSE [status |-> 500, error |-> SyncFailed]

\* the answer to the request whose sync has ended
SyncResponse == SyncRoute(TRUE, result)

(***************************************************************************)
(* Roster imports with identifiers as the provider types them: opaque      *)
(* strings.  Teacher syncs of one classroom each run one after the other.   *)
(***************************************************************************)
OpaqueCourseIds == {"c1", "c1-u1"}
OpaqueUserIds == {"u1", "u2", "u1-u2"}

OpaqueBundles ==
    {[course |-> RawCourse(c, "Bio " \o c, NULL), teachers |-> <<>>,
      students |-> <<[userId |-> g, profile |-> Person(g, TRUE)]>>] :
        c \in OpaqueCourseIds, g \in OpaqueUserIds}

\* a teacher sync of the caller u1 that fetched one bundle writes and commits
ImportStudents ==
    \E bundle \in OpaqueBundles :
        /\ courseBundles' = <<bundle>>
        /\ LET upserted == upsertUser(db, fetchUserProfile(Userinfo(FirstUser)), "teacher")
               t1 == storeUserTokens(upserted.t, upserted.id, tokens)
           IN  db' = Commit(db, WriteTeacherCourse(t1, bundle, upserted.id))
        /\ UNCHANGED <<tx, inTx, pc, plan, tokens, userinfo, userProfile, teacherCourses,
                       studentCourses, load, callerId, summary, result, path, probes,
                       requests, writes, history>>

ImportNext == ImportStudents

ImportSpec == Init /\ [][ImportNext]_vars

(***************************************************************************)
(* The attendance routes.  The tables of the sync are those left by two    *)
(* teacher syncs: u1 teaches c1 where u2 is enrolled, u2 teaches c2 where  *)
(* u1 is enrolled.                                                         *)
(***************************************************************************)
MaxApiRequests == 3
MaxApiHandlers == 2

ApiLimits ==
    [syncs |-> 0, replays |-> FALSE, listed |-> 1, teachers |-> 1, students |-> 1, pages |-> 1,
     requests |-> MaxApiRequests]
\* the writes of a sync as the steps of Spec make them
SyncWrites(t, d) ==
    LET upserted == upsertUser(t, d.profile, d.path)
        t1 == storeUserTokens(upserted.t, upserted.id, d.tok)
    IN  IF d.path = "teacher"
        THEN WriteTeacherCourse(t1, [course |-> d.course, teachers |-> d.teachers,
                                     students |-> d.students], upserted.id)
        ELSE WriteStudentCourse(t1, d.course, d.profile, upserted.id)

\* what a teacher sync of one classroom with one teacher and one student holds
\* at withTransaction, the provider giving names only
SeedSync(c, teacher, student) ==
    LET person(g) == [id |-> g, fullName |-> ClassName(g), givenName |-> NULL,
                      familyName |-> NULL, emailAddress |-> NULL, photoUrl |-> NULL]
    IN  [path |-> "teacher",
         profile |-> fetchUserProfile([id |-> teacher, name |-> AccountName(teacher),
                                       email |-> NULL, picture |-> NULL]),
         tok |-> [access_token |-> "at", refresh_token |-> NULL],
         course |-> RawCourse(c, "Bio " \o c, NULL),
         teachers |-> <<[userId |-> teacher, profile |-> person(teacher)]>>,
         students |-> <<[userId |-> student, profile |-> person(student)]>>]

SeededTables ==
    SyncWrites(SyncWrites(EmptyTables, SeedSync("c1", "u1", "u2")), SeedSync("c2", "u2", "u1"))

\* LOWER(...) of the session names in use
Lower(v) == IF v = "Lab" THEN "lab" ELSE v

bonusPointMap(code) ==
    IF code \in {"participation", "thank_you", "video_content", "additional_event"} THEN 1 ELSE 0

allowedStatuses == {"present", "late", "excused", "absent"}

\* a record id as the text of the path parameter: how many hex digits, hyphens
\* and other characters it has, whether its hyphens sit between groups of four
\* digits, and the generated id it spells when it is a uuid
IdText(hex, hyphens, other, grouped, names) ==
    [hex |-> hex, hyphens |-> hyphens, other |-> other, grouped |-> grouped, names |-> names]

NoIdText == IdText(0, 0, 0, FALSE, 0)

\* /^[0-9a-fA-F-]{32,36}$/.test(recordId)
isPotentialUuid(id) == id.other = 0 /\ id.hex + id.hyphens >= 32 /\ id.hex + id.hyphens <= 36

\* the database reads the text as a uuid: 32 hex digits, hyphens between groups only
IsUuid(id) == id.other = 0 /\ id.hex = 32 /\ id.grouped

NoRequest ==
    [sessionName |-> NULL, courseId |-> NULL, entries |-> <<>>, recordId |-> NoIdText,
     role |-> NULL, userId |-> NULL, studentId |-> NULL]

\* a request handler: its route, its request, where it stands, its answer and
\* what its open transaction holds
IdleHandler ==
    [route |-> "none", req |-> NoRequest, pc |-> "idle", status |-> 0, body |-> <<>>,
     sessionId |-> 0, deleted |-> {}, drop |-> FALSE, served |-> 0]

Handlers == 1..MaxApiHandlers

RECURSIVE Served(_)
\* requests accepted so far by the handlers up to h
Served(h) == IF h = 0 THEN 0 ELSE handlers[h].served + Served(h - 1)

\* a handler is free to take the next request
Free(h) == handlers[h].pc \in {"idle", "answered"} /\ Served(MaxApiHandlers) < limits.requests

\* the handler with a new request in hand
Taking(h, route, req) ==
    [IdleHandler EXCEPT !.route = route, !.req = req, !.served = handlers[h].served + 1]

\* res.status(status).send(body) / .json(body)
Answered(handler, status, body) ==
    [handler EXCEPT !.pc = "answered", !.status = status, !.body = body,
                    !.sessionId = 0, !.deleted = {}, !.drop = FALSE]

Entry(studentId, status, bonus) == [studentId |-> studentId, status |-> status, bonus |-> bonus]

\* request bodies of POST /api/sessions
SessionPayloads ==
    LET s1 == StudentRowId("c1", "u2")
        s2 == StudentRowId("c2", "u1")
        e1 == Entry(s1, "present", <<"participation">>)
        e2 == Entry(s2, "late", <<>>)
        bad == Entry(s1, "unknown", <<>>)
        gone == Entry(StudentRowId("c1", "u1"), "present", <<>>)
    IN  {[NoRequest EXCEPT !.sessionName = n, !.courseId = "c1", !.entries = l] :
            n \in {"Lab", " lab "}, l \in {<<e1>>, <<e1, e1>>, <<e1, e2>>, <<e2>>}}
        \cup {[NoRequest EXCEPT !.sessionName = "Lab", !.courseId = "c1", !.entries = l] :
                 l \in {<<>>, <<bad>>, <<e2, gone>>}}
        \cup {[NoRequest EXCEPT !.sessionName = n, !.courseId = c, !.entries = <<e1>>] :
                 n \in {NULL, " "}, c \in {NULL, "c1"}}

\* attendancePoints, in tenths of a point
attendancePoints(status) ==
    CASE status = "present" -> 50
      [] status = "late" -> 35
      [] status = "excused" -> 25
      [] OTHER -> 0

\* the checks of the request body before the transaction: the status they
\* answer with, 0 when they pass
ValidateSession(req) ==
    IF Falsy(req.sessionName) \/ Falsy(req.courseId) \/ Len(req.entries) = 0 THEN 400
    ELSE IF Trim(req.sessionName) = "" THEN 400
    ELSE 0

uniqueStudentIds(req) ==
    {req.entries[i].studentId : i \in {j \in DOMAIN req.entries : ~Falsy(req.entries[j].studentId)}}

\* the rows of the duplicate check
DuplicateRows(a, req) ==
    {k \in DOMAIN a.attendance_records :
        LET ar == a.attendance_records[k]
            ss == a.sessions[ar.session_id]
        IN  /\ ss.course_id = req.courseId
            /\ Lower(Trim(ss.name)) = Lower(Trim(req.sessionName))
            /\ ar.student_id \in uniqueStudentIds(req)}

RECURSIVE InsertBonus(_, _, _, _)
InsertBonus(a, recordId, codes, j) ==
    IF j > Len(codes) THEN a
    ELSE IF bonusPointMap(codes[j]) = 0 THEN InsertBonus(a, recordId, codes, j + 1)
    ELSE LET id == a.ids + 1
             row == [id |-> id, attendance_record_id |-> recordId, code |-> codes[j],
                     points |-> bonusPointMap(codes[j])]
         IN  InsertBonus([a EXCEPT !.ids = id, !.bonus_events = Put(@, id, row)],
                         recordId, codes, j + 1)

RECURSIVE InsertEntries(_, _, _, _, _)
\* the loop over payload.entries: the tables it leaves, or that it threw (an
\* invalid status, or a student id the students table does not hold)
InsertEntries(a, t, sessionId, entries, i) ==
    IF i > Len(entries) THEN [threw |-> FALSE, a |-> a]
    ELSE IF entries[i].status \notin allowedStatuses \/ entries[i].studentId \notin DOMAIN t.students
    THEN [threw |-> TRUE, a |-> a]
    ELSE LET id == a.ids + 1
             row == [id |-> id, session_id |-> sessionId, student_id |-> entries[i].studentId,
                     status |-> entries[i].status,
                     participation |-> attendancePoints(entries[i].status), notes |-> ""]
             a1 == [a EXCEPT !.ids = id, !.attendance_records = Put(@, id, row)]
         IN  InsertEntries(InsertBonus(a1, id, entries[i].bonus, 1), t, sessionId, entries, i + 1)

\* INSERT INTO sessions and the loop over the entries
InsertSession(a, t, req) ==
    IF req.courseId \notin DOMAIN t.courses THEN [threw |-> TRUE, a |-> a]
    ELSE LET id == a.ids + 1
             row == [id |-> id, course_id |-> req.courseId, name |-> Trim(req.sessionName)]
         IN  InsertEntries([a EXCEPT !.ids = id, !.sessions = Put(@, id, row)], t, id,
                           req.entries, 1)

\* POST /api/sessions up to the duplicate check: a body that fails the checks
\* is answered 400, a duplicate is thrown, rolled back and answered 409
PostSession(h) ==
    /\ Free(h)
    /\ \E req \in SessionPayloads :
          LET handler == Taking(h, "POST /api/sessions", req)
          IN  handlers' =
                [handlers EXCEPT ![h] =
                   IF ValidateSession(req) # 0
                   THEN Answered(handler, ValidateSession(req), <<>>)
                   ELSE IF uniqueStudentIds(req) # {} /\ DuplicateRows(att, req) # {}
                   THEN Answered(handler, 409, <<>>)
                   ELSE [handler EXCEPT !.pc = "insert"]]
    /\ UNCHANGED <<db, syncVars, sessions, att>>

\* POST /api/sessions from the INSERT of the session to COMMIT: rows it inserts
\* are seen by no other transaction before the commit
PostInsert(h) ==
    /\ handlers[h].pc = "insert"
    /\ LET inserted == InsertSession(att, db, handlers[h].req)
       IN  IF inserted.threw
           THEN /\ att' = Rollback(att, inserted.a)
                /\ handlers' = [handlers EXCEPT ![h] = Answered(@, 500, <<>>)]
           ELSE /\ att' = Commit(att, inserted.a)
                /\ handlers' = [handlers EXCEPT ![h] = Answered(@, 201, <<att.ids + 1>>)]
    /\ UNCHANGED <<db, syncVars, sessions>>

\* the record id of a stored record as the client sends it
Canonical(n) == IdText(32, 4, 0, TRUE, n)

\* requests of DELETE /api/attendance-records/:recordId
DeleteRequests ==
    {[NoRequest EXCEPT !.recordId = Canonical(n), !.role = who[1], !.userId = who[2]] :
        n \in DOMAIN att.attendance_records,
        who \in {<<"teacher", UserRowId("u1")>>, <<"teacher", UserRowId("u2")>>,
                 <<"student", UserRowId("u1")>>, <<NULL, UserRowId("u1")>>, <<"teacher", NULL>>}}
    \cup {[NoRequest EXCEPT !.recordId = id, !.role = "teacher", !.userId = UserRowId("u1")] :
             id \in {NoIdText, Canonical(0), IdText(0, 32, 0, FALSE, 0), IdText(3, 0, 1, FALSE, 0)}}

\* DELETE /api/attendance-records/:recordId up to withTransaction: the checks of
\* the request, the lookup of the record and of the teacher association
DeleteStart(h) ==
    /\ Free(h)
    /\ \E req \in DeleteRequests :
          LET handler == Taking(h, "DELETE /api/attendance-records", req)
              id == req.recordId
              sessionId == att.attendance_records[id.names].session_id
          IN  handlers' =
                [handlers EXCEPT ![h] =
                   IF id.hex + id.hyphens + id.other = 0 THEN Answered(handler, 400, <<>>)
                   ELSE IF Falsy(req.role) \/ Falsy(req.userId) THEN Answered(handler, 400, <<>>)
                   ELSE IF req.role # "teacher" THEN Answered(handler, 403, <<>>)
                   ELSE IF ~isPotentialUuid(id) THEN Answered(handler, 400, <<>>)
                   ELSE IF ~IsUuid(id) THEN Answered(handler, 500, <<>>)
                   ELSE IF id.names \notin DOMAIN att.attendance_records
                   THEN Answered(handler, 404, <<>>)
                   ELSE IF <<att.sessions[sessionId].course_id, req.userId>> \notin db.course_teachers
                   THEN Answered(handler, 403, <<>>)
                   ELSE [handler EXCEPT !.pc = "delete", !.sessionId = sessionId]]
    /\ UNCHANGED <<db, syncVars, sessions, att>>

\* BEGIN; DELETE FROM attendance_records WHERE id = $1: waits while another
\* transaction has deleted the row and not ended; deletes nothing when the row
\* is gone
DeleteRow(h) ==
    /\ handlers[h].pc = "delete"
    /\ \A o \in Handlers \ {h} : handlers[h].req.recordId.names \notin handlers[o].deleted
    /\ handlers' = [handlers EXCEPT
                       ![h].pc = "count",
                       ![h].deleted = {handlers[h].req.recordId.names}
                                        \cap DOMAIN att.attendance_records]
    /\ UNCHANGED <<db, syncVars, sessions, att>>

\* the records of the session the transaction of the handler sees: the
\* committed ones without those it deleted itself
Remaining(h) ==
    {k \in DOMAIN att.attendance_records \ handlers[h].deleted :
        att.attendance_records[k].session_id = handlers[h].sessionId}

\* SELECT COUNT(*) ... WHERE session_id = $1; if it is 0, DELETE FROM sessions
DeleteCount(h) ==
    /\ handlers[h].pc = "count"
    /\ handlers' = [handlers EXCEPT ![h].pc = "commit", ![h].drop = (Remaining(h) = {})]
    /\ UNCHANGED <<db, syncVars, sessions, att>>

\* the tables without the given records and sessions, with ON DELETE CASCADE
WithoutRows(a, records, sessionIds) ==
    LET gone == records \cup {k \in DOMAIN a.attendance_records :
                                 a.attendance_records[k].session_id \in sessionIds}
    IN  [a EXCEPT
           !.sessions = [k \in DOMAIN @ \ sessionIds |-> @[k]],
           !.attendance_records = [k \in DOMAIN @ \ gone |-> @[k]],
           !.bonus_events = [k \in {b \in DOMAIN @ : @[b].attendance_record_id \notin gone}
                               |-> @[k]]]

\* COMMIT of the deletion, answered 204
DeleteCommit(h) ==
    /\ handlers[h].pc = "commit"
    /\ att' = Commit(att, WithoutRows(att, handlers[h].deleted,
                                      IF handlers[h].drop THEN {handlers[h].sessionId} ELSE {}))
    /\ handlers' = [handlers EXCEPT ![h] = Answered(@, 204, <<>>)]
    /\ UNCHANGED <<db, syncVars, sessions>>

\* the server is up on the seeded tables, no request has come in
ApiInit == InitOn(ApiLimits, SeededTables, EmptyAttendance, [h \in Handlers |-> IdleHandler])

ApiNext ==
    \/ \E h \in Handlers : PostSession(h)
    \/ \E h \in Handlers : PostInsert(h)
    \/ \E h \in Handlers : DeleteStart(h)
    \/ \E h \in Handlers : DeleteRow(h)
    \/ \E h \in Handlers : DeleteCount(h)
    \/ \E h \in Handlers : DeleteCommit(h)

ApiSpec == ApiInit /\ [][ApiNext]_vars

(***************************************************************************)
(* The read routes, on the seeded tables.                                  *)
(***************************************************************************)
MaxReadRequests == 2

ReadLimits ==
    [syncs |-> 0, replays |-> FALSE, listed |-> 1, teachers |-> 1, students |-> 1, pages |-> 1,
     requests |-> MaxReadRequests]

\* the attendance tables after one saved session with a record for each student
SeededAttendance ==
    InsertSession(EmptyAttendance, SeededTables,
                  [NoRequest EXCEPT !.sessionName = "Lab", !.courseId = "c1",
                     !.entries = <<Entry(StudentRowId("c1", "u2"), "present", <<"participation">>),
                                   Entry(StudentRowId("c2", "u1"), "late", <<>>)>>]).a

\* requests of GET /api/students/:studentId
StudentRequests ==
    {[NoRequest EXCEPT !.studentId = sid, !.role = role, !.userId = userId] :
        sid \in DOMAIN db.students \cup {StudentRowId("c1", "u1")},
        role \in {NULL, "teacher", "student", "admin"},
        userId \in {NULL, UserRowId("u1"), UserRowId("u2")}}

\* variant: any teacher may read any summary
StudentStatusAnyTeacher(t, req) ==
    IF req.studentId \notin DOMAIN t.students THEN 404
    ELSE IF Falsy(req.role) \/ Falsy(req.userId) THEN 400
    ELSE IF req.role = "student"
    THEN IF t.students[req.studentId].user_id # req.userId THEN 403 ELSE 200
    ELSE IF req.role = "teacher" THEN 200
    ELSE 403

\* the status GET /api/students/:studentId decides on before it reads the records
StudentStatus(t, req) ==
    IF req.studentId \notin DOMAIN t.students THEN 404
    ELSE IF Falsy(req.role) \/ Falsy(req.userId) THEN 400
    ELSE IF req.role = "student"
    THEN IF t.students[req.studentId].user_id # req.userId THEN 403 ELSE 200
    ELSE IF req.role = "teacher"
    THEN IF <<t.students[req.studentId].course_id, req.userId>> \notin t.course_teachers
         THEN 403 ELSE 200
    ELSE 403

\* the body of the summary: the student, the statistics and the records
StudentSummary(t, a, studentId) ==
    LET records == {k \in DOMAIN a.attendance_records :
                       a.attendance_records[k].student_id = studentId}
        present == {k \in records : a.attendance_records[k].status = "present"}
        bonus == {b \in DOMAIN a.bonus_events : a.bonus_events[b].attendance_record_id \in records}
    IN  [student |-> [id |-> studentId, name |-> t.students[studentId].name,
                      cohort |-> t.students[studentId].cohort,
                      courseId |-> t.students[studentId].course_id],
         totalSessions |-> Cardinality(records),
         attendanceRate |-> IF records = {} THEN 0
                            ELSE (200 * Cardinality(present) + Cardinality(records))
                                    \div (2 * Cardinality(records)),
         bonusPoints |-> Cardinality(bonus),
         recentSessions |-> records]

GetStudent(h) ==
    /\ Free(h)
    /\ \E req \in StudentRequests :
          LET handler == Taking(h, "GET /api/students", req)
              status == StudentStatus(db, req)
          IN  handlers' =
                [handlers EXCEPT ![h] =
                   Answered(handler, status,
                            IF status = 200 THEN <<StudentSummary(db, att, req.studentId)>>
                            ELSE <<>>)]
    /\ UNCHANGED <<db, syncVars, sessions, att>>

\* requests of GET /api/roster
RosterRequests ==
    {[NoRequest EXCEPT !.courseId = c, !.role = role, !.userId = userId] :
        c \in {NULL, "c1", "c2"},
        role \in {NULL, "teacher", "student"},
        userId \in {NULL, UserRowId("u1"), UserRowId("u2")}}

\* the rows of the roster query, as the response carries them (their order by
\* name is left out)
RosterRows(t, courseId) ==
    {[id |-> k, name |-> t.students[k].name, cohort |-> t.students[k].cohort,
      courseId |-> t.students[k].course_id] :
        k \in {x \in DOMAIN t.students : courseId = NULL \/ t.students[x].course_id = courseId}}

\* GET /api/roster; the refresh of the roster before the response is caught
\* when it fails and the stored roster is answered
GetRoster(h) ==
    /\ Free(h)
    /\ \E req \in RosterRequests :
          LET handler == Taking(h, "GET /api/roster", req)
          IN  handlers' =
                [handlers EXCEPT ![h] =
                   IF req.role # "teacher" THEN Answered(handler, 403, <<>>)
                   ELSE IF /\ ~Falsy(req.courseId) /\ ~Falsy(req.userId)
                           /\ <<req.courseId, req.userId>> \notin db.course_teachers
                   THEN Answered(handler, 403, <<>>)
                   ELSE Answered(handler, 200, <<RosterRows(db, req.courseId)>>)]
    /\ UNCHANGED <<db, syncVars, sessions, att>>

ReadInit ==
    \E a \in {EmptyAttendance, SeededAttendance} :
        InitOn(ReadLimits, SeededTables, a, [h \in Handlers |-> IdleHandler])

ReadNext ==
    \/ \E h \in Handlers : GetStudent(h)
    \/ \E h \in Handlers : GetRoster(h)

ReadSpec == ReadInit /\ [][ReadNext]_vars

(***************************************************************************)
(* withTransaction, one call per pooled client: every awaited step either  *)
(* resolves or rejects.                                                    *)
(***************************************************************************)
MaxTxCalls == 3

TxLimits ==
    [syncs |-> 0, replays |-> FALSE, listed |-> 1, teachers |-> 1, students |-> 1, pages |-> 1,
     requests |-> MaxTxCalls]

\* a call of withTransaction: where it stands, the statements it sent on its
\* client with their outcome, how the handler ended, the error the catch
\* block holds, what reached the caller and how often the client was released
IdleCall ==
    [pc |-> "idle", client |-> FALSE, log |-> <<>>, handled |-> "none", caught |-> "none",
     result |-> "none", thrown |-> "none", released |-> 0, served |-> 0]

\* client.query(text), resolved or rejected
Query(call, text, ok) == [call EXCEPT !.log = Append(@, [text |-> text, ok |-> ok])]

\* const client = await pool.connect()
Connect(h) ==
    /\ handlers[h].pc \in {"idle", "done"}
    /\ Served(MaxApiHandlers) < limits.requests
    /\ \E ok \in BOOLEAN :
          handlers' = [handlers EXCEPT ![h] =
              IF ok
              THEN [IdleCall EXCEPT !.pc = "begin", !.client = TRUE,
                                    !.served = handlers[h].served + 1]
              ELSE [IdleCall EXCEPT !.pc = "done", !.thrown = "connect",
                                    !.served = handlers[h].served + 1]]
    /\ UNCHANGED <<db, syncVars, sessions, att>>

\* await client.query("BEGIN")
BeginTransaction(h) ==
    /\ handlers[h].pc = "begin"
    /\ \E ok \in BOOLEAN :
          handlers' = [handlers EXCEPT ![h] =
              IF ok THEN [Query(@, "BEGIN", TRUE) EXCEPT !.pc = "handler"]
              ELSE [Query(@, "BEGIN", FALSE) EXCEPT !.pc = "catch", !.caught = "BEGIN"]]
    /\ UNCHANGED <<db, syncVars, sessions, att>>

\* const result = await handler(client)
RunHandler(h) ==
    /\ handlers[h].pc = "handler"
    /\ \E ok \in BOOLEAN :
          handlers' = [handlers EXCEPT ![h] =
              IF ok THEN [@ EXCEPT !.pc = "commit", !.handled = "returned"]
              ELSE [@ EXCEPT !.pc = "catch", !.handled = "threw", !.caught = "handler"]]
    /\ UNCHANGED <<db, syncVars, sessions, att>>

\* await client.query("COMMIT"); return result
CommitTransaction(h) ==
    /\ handlers[h].pc = "commit"
    /\ \E ok \in BOOLEAN :
          handlers' = [handlers EXCEPT ![h] =
              IF ok THEN [Query(@, "COMMIT", TRUE) EXCEPT !.pc = "finally", !.result = "value"]
              ELSE [Query(@, "COMMIT", FALSE) EXCEPT !.pc = "catch", !.caught = "COMMIT"]]
    /\ UNCHANGED <<db, syncVars, sessions, att>>

\* catch (error) { await client.query("ROLLBACK"); throw error; }
RollbackTransaction(h) ==
    /\ handlers[h].pc = "catch"
    /\ \E ok \in BOOLEAN :
          handlers' = [handlers EXCEPT ![h] =
              IF ok THEN [Query(@, "ROLLBACK", TRUE) EXCEPT !.pc = "finally",
                                                         !.thrown = handlers[h].caught]
              ELSE [Query(@, "ROLLBACK", FALSE) EXCEPT !.pc = "finally", !.thrown = "ROLLBACK"]]
    /\ UNCHANGED <<db, syncVars, sessions, att>>

\* finally { client.release(); }
Release(h) ==
    /\ handlers[h].pc = "finally"
    /\ handlers' = [handlers EXCEPT ![h] = [@ EXCEPT !.pc = "done", !.released = @ + 1]]
    /\ UNCHANGED <<db, syncVars, sessions, att>>

TxInit == InitOn(TxLimits, EmptyTables, EmptyAttendance, [h \in Handlers |-> IdleCall])

TxNext ==
    \/ \E h \in Handlers : Connect(h)
    \/ \E h \in Handlers : BeginTransaction(h)
    \/ \E h \in Handlers : RunHandler(h)
    \/ \E h \in Handlers : CommitTransaction(h)
    \/ \E h \in Handlers : RollbackTransaction(h)
    \/ \E h \in Handlers : Release(h)

TxSpec == TxInit /\ [][TxNext]_vars

(***************************************************************************)
(* Properties.                                                             *)
(***************************************************************************)
\* the tables a sync of the same provider data must leave as they were
RosterTables(t) == <<t.users, t.courses, t.course_teachers, t.students>>

\* user ids associated with a course in course_teachers
TeachersOf(t, courseId) == {ct[2] : ct \in {x \in t.course_teachers : x[1] = courseId}}

BundleSet == {courseBundles[i] : i \in DOMAIN courseBundles}

\* ids of the roster teachers of a bundle that carry an id, resolvable or not
ObservedTeachers(bundle) ==
    {UserRowId(bundle.teachers[i].profile.id) :
        i \in {k \in DOMAIN bundle.teachers : ~Falsy(bundle.teachers[k].profile.id)}}

\* ids of the roster teachers of a bundle whose profile has an id and a full name
ResolvedTeachers(bundle) ==
    {UserRowId(bundle.teachers[i].profile.id) :
        i \in {k \in DOMAIN bundle.teachers : toProfile(bundle.teachers[k].profile) # NoProfile}}

TeacherSyncDone == pc = "done" /\ path = "teacher"

StudentSyncDone == pc = "done" /\ path = "student"

\* C1: a sync that has not committed, and in particular one whose transaction
\* failed at any statement, leaves all five tables exactly as they were when
\* the sync started; nothing is persisted before COMMIT.
C1_AllOrNothing ==
    /\ pc # "done" => db = pre
    /\ result = "threw database" => pc = "failed" /\ ~inTx

\* C1 witness: a teacher-branch transaction failed after issuing writes
C1_Witness ==
    /\ pc = "failed"
    /\ result = "threw database"
    /\ path = "teacher"
    /\ writes >= 2

\* C2: a committed sync that saw the provider data of the previous committed
\* sync leaves users, courses, course_teachers and students as that sync left them.
C2_Idempotent == (pc = "done" /\ replay) => RosterTables(db) = RosterTables(pre)

\* C2 witness: a replayed teacher sync with enrollment rows has committed
C2_Witness ==
    /\ TeacherSyncDone
    /\ replay
    /\ db.students # NoRows
    /\ db.course_teachers # {}

\* C3: in every step, a users row with role 'teacher' is still there with role
\* 'teacher' afterwards.
C3_RoleSticky ==
    [][\A g \in DOMAIN db.users :
          db.users[g].role = "teacher"
              => g \in DOMAIN db'.users /\ db'.users[g].role = "teacher"]_vars

\* C3 witness: a student-branch sync has committed for a caller already stored as teacher
C3_Witness ==
    /\ StudentSyncDone
    /\ \E i \in DOMAIN studentCourses : HasIdAndName(studentCourses[i])
    /\ userProfile.googleUserId \in DOMAIN pre.users
    /\ pre.users[userProfile.googleUserId].role = "teacher"

\* C4 as stated: after a committed teacher sync the teachers associated with each
\* synced course are exactly the teachers of the fetched roster.
C4_ExactlyObserved ==
    TeacherSyncDone =>
        \A b \in BundleSet : TeachersOf(db, b.course.id) = ObservedTeachers(b)

\* C4 amended: after a committed teacher sync the teachers associated with each
\* synced course are exactly the roster teachers whose profile resolves, or the
\* caller alone when none resolves; earlier associations are gone.
C4_TeacherSetReplaced ==
    TeacherSyncDone =>
        \A b \in BundleSet :
            TeachersOf(db, b.course.id) =
                IF ResolvedTeachers(b) # {} THEN ResolvedTeachers(b) ELSE {callerId}

\* C4 witness: a committed teacher sync removed a teacher an earlier sync had associated
C4_Witness ==
    /\ TeacherSyncDone
    /\ \E b \in BundleSet :
          /\ ResolvedTeachers(b) # {}
          /\ TeachersOf(pre, b.course.id) \ TeachersOf(db, b.course.id) # {}

\* C5: after a committed teacher sync the caller is associated with every course
\* the sync wrote.
C5_RequesterAssociated ==
    TeacherSyncDone =>
        \A b \in BundleSet : callerId \in TeachersOf(db, b.course.id)

\* C6: in every step, a course row with a primary teacher keeps a primary
\* teacher, and a student-branch sync leaves the primary teacher as it was.
C6_PrimaryTeacherKept ==
    [][\A c \in DOMAIN db.courses :
          db.courses[c].teacher_user_id # NULL
              => /\ c \in DOMAIN db'.courses
                 /\ db'.courses[c].teacher_user_id # NULL
                 /\ path = "student"
                      => db'.courses[c].teacher_user_id = db.courses[c].teacher_user_id]_vars

\* C6 witness: a student-branch sync has committed a course that had a primary teacher
C6_Witness ==
    /\ StudentSyncDone
    /\ \E i \in DOMAIN studentCourses :
          /\ HasIdAndName(studentCourses[i])
          /\ studentCourses[i].id \in DOMAIN pre.courses
          /\ pre.courses[studentCourses[i].id].teacher_user_id # NULL

\* a table holds at most one row per (course, external student), stored under
\* the id computed from that pair
OneRowPerPair(students) ==
    /\ \A k \in DOMAIN students :
          /\ students[k].id = k
          /\ k = StudentRowId(students[k].course_id, students[k].google_user_id)
    /\ \A k1, k2 \in DOMAIN students :
          (/\ students[k1].course_id = students[k2].course_id
           /\ students[k1].google_user_id = students[k2].google_user_id) => k1 = k2

\* C7: after any sequence of syncs, and inside every transaction, the students
\* table has at most one row per (course, external student) pair, and the row id
\* is the function StudentRowId of that pair.
C7_OneRowPerPair == OneRowPerPair(db.students) /\ OneRowPerPair(tx.students)

\* C7 witness: a committed sync re-imported a pair and changed its existing row
C7_Witness ==
    /\ pc = "done"
    /\ \E k \in DOMAIN pre.students :
          /\ k \in DOMAIN db.students
          /\ db.students[k] # pre.students[k]
          /\ db.students[k].course_id = pre.students[k].course_id
          /\ db.students[k].google_user_id = pre.students[k].google_user_id

\* C8: every step that makes a provider call happens outside the transaction
\* and before the sync has issued any write.
C8_WriteAfterFetch == [][calls' > calls => ~inTx /\ writes = 0]_vars

\* C8 witness: a teacher sync that fetched rosters is writing inside its transaction
C8_Witness ==
    /\ path = "teacher"
    /\ inTx
    /\ writes >= 2
    /\ calls >= 5

\* the raw userinfo answer lacks the subject id or the display name
ProfileUnusable == userinfo # NoUserinfo /\ (Falsy(userinfo.id) \/ Falsy(userinfo.name))

\* C9: when the credential exchange failed, or the userinfo answer lacks the id or
\* the name, the sync has failed, has issued no write and the tables are as before.
C9_NoWriteWithoutIdentity ==
    (result = "threw exchange" \/ ProfileUnusable)
        => pc = "failed" /\ ~inTx /\ writes = 0 /\ db = pre /\ path = "none"

\* C9 witness: profile resolution failed while the tables already hold rows
C9_Witness ==
    /\ result = "threw profile"
    /\ ProfileUnusable
    /\ db.users # NoRows

\* C10: in a sync that has not thrown, the teacher branch is taken exactly when
\* the teacher probe returned at least one classroom; otherwise the student probe
\* is made and the student branch taken; a returned result carries the role of
\* the branch.
C10_RoleByProbe ==
    /\ pc # "failed" =>
          /\ path = "teacher" <=> ("teacher" \in probes /\ Len(teacherCourses) > 0)
          /\ path = "student" <=> "student" \in probes
          /\ "student" \in probes => "teacher" \in probes /\ Len(teacherCourses) = 0
          /\ ("teacher" \in probes /\ Len(teacherCourses) = 0)
                => pc = "probeS" \/ path = "student"
    /\ pc = "done" => result = path /\ path \in {"teacher", "student"}

\* C10 witness: both probes returned nothing and the sync returned as student
C10_Witness ==
    /\ pc = "done"
    /\ result = "student"
    /\ probes = {"teacher", "student"}
    /\ studentCourses = <<>>

\* the probe for the caller's classrooms in the given role was answered 403
Denied(role) ==
    \E i \in DOMAIN requests :
        requests[i].op = "courses.list" /\ requests[i].arg = role /\ requests[i].code = 403

\* C11: a step in which a course-list probe is answered 403 leaves the sync
\* running with an empty classroom list for that probe (after the teacher probe
\* the student probe is made, after the student probe the student branch is
\* run), and a sync that returns after a 403 on the teacher probe returns as
\* student.
C11_ForbiddenIsEmpty ==
    [][/\ (Denied("teacherId")' /\ ~Denied("teacherId"))
            => teacherCourses' = <<>> /\ pc' = "probeS" /\ result' = "none"
       /\ (Denied("studentId")' /\ ~Denied("studentId"))
            => /\ studentCourses' = <<>>
               /\ pc' = "run" /\ path' = "student" /\ result' = "none"
       /\ (pc' = "done" /\ Denied("teacherId")') => result' = "student"]_vars

\* C11 witness: the teacher probe was answered 403, the student probe listed a
\* classroom, and the sync returned as student with the enrollment written
C11_Witness ==
    /\ pc = "done"
    /\ result = "student"
    /\ Denied("teacherId")
    /\ \E i \in DOMAIN studentCourses : HasIdAndName(studentCourses[i])
    /\ db.students # pre.students

\* positions of the roster teachers that carry an id and a full name
Resolvable(teachers) ==
    {k \in DOMAIN teachers :
        ~Falsy(teachers[k].profile.id) /\ ~Falsy(teachers[k].profile.fullName)}

\* the users row id of the first roster teacher that resolves, NULL when none does
FirstResolved(teachers) ==
    IF Resolvable(teachers) = {} THEN NULL
    ELSE LET k == CHOOSE x \in Resolvable(teachers) : \A y \in Resolvable(teachers) : x <= y
         IN  UserRowId(teachers[k].profile.id)

\* C12: after a committed teacher sync the primary teacher of every synced
\* course is the first roster teacher, in provider order, that has an id and a
\* full name, and the caller when no roster teacher has both.
C12_PrimaryIsFirstResolved ==
    TeacherSyncDone =>
        \A b \in BundleSet :
            db.courses[b.course.id].teacher_user_id =
                IF FirstResolved(b.teachers) # NULL THEN FirstResolved(b.teachers)
                ELSE callerId

\* C12 witness: the first roster teacher has no full name, the second resolves
\* and is not the caller, and became the primary teacher
C12_Witness ==
    /\ TeacherSyncDone
    /\ \E b \in BundleSet :
          /\ Len(b.teachers) = 2
          /\ 1 \notin Resolvable(b.teachers)
          /\ 2 \in Resolvable(b.teachers)
          /\ FirstResolved(b.teachers) # callerId
          /\ db.courses[b.course.id].teacher_user_id = FirstResolved(b.teachers)

\* every entry of the summary is an enrollment row of the given tables
SummaryRowsIn(t) ==
    \A i \in DOMAIN summary :
        /\ summary[i].studentRecordId \in DOMAIN t.students
        /\ summary[i] = StudentSummaryEntry(t.students[summary[i].studentRecordId])

\* C13: on the student branch the step that reads the caller's enrollment rows
\* into the summary is taken after the transaction has committed, and every
\* entry of a returned student summary is a committed row.
C13_ReadAfterCommit ==
    [][/\ (AtStep("read") /\ pc' = "run" /\ plan' = Tail(plan)) => ~inTx /\ db = tx
       /\ (pc' = "done" /\ path' = "student") => SummaryRowsIn(db)']_vars

\* every row of the table is still there, under the same key and with the same id
RowsKept(before, after) ==
    \A k \in DOMAIN before : k \in DOMAIN after /\ after[k].id = before[k].id

\* C15: no step removes a users, courses or students row, neither from the
\* committed tables nor inside a transaction, and a finished sync has kept
\* every row that existed when it started.
C15_NeverDeletes ==
    [][/\ RowsKept(db.users, db'.users)
       /\ RowsKept(db.courses, db'.courses)
       /\ RowsKept(db.students, db'.students)
       /\ (inTx /\ inTx') =>
             /\ RowsKept(tx.users, tx'.users)
             /\ RowsKept(tx.courses, tx'.courses)
             /\ RowsKept(tx.students, tx'.students)
       /\ pc' \in {"done", "failed"} =>
             /\ RowsKept(pre.users, db'.users)
             /\ RowsKept(pre.courses, db'.courses)
             /\ RowsKept(pre.students, db'.students)]_vars

\* C15 witness: a committed teacher sync fetched a roster that no longer lists
\* a student enrolled in the course, and the enrollment row is still there
C15_Witness ==
    /\ TeacherSyncDone
    /\ \E b \in BundleSet :
          \E k \in DOMAIN pre.students :
              /\ pre.students[k].course_id = b.course.id
              /\ \A i \in DOMAIN b.students : b.students[i].userId # pre.students[k].google_user_id
              /\ k \in DOMAIN db.students

\* the refresh token stored for a user before the sync, NULL when there was none
StoredRefreshToken(userId) ==
    IF userId \in DOMAIN pre.user_tokens THEN pre.user_tokens[userId].refresh_token ELSE NULL

\* C16: a sync that returned without an access token left user_tokens as it
\* was; one that returned with an access token left the caller's row holding
\* that access token, with the new refresh token or, when the credentials carry
\* none, the refresh token stored before, and left every other row as it was.
C16_TokensBestEffort ==
    pc = "done" =>
        IF Falsy(tokens.access_token)
        THEN db.user_tokens = pre.user_tokens
        ELSE /\ DOMAIN db.user_tokens = DOMAIN pre.user_tokens \cup {callerId}
             /\ db.user_tokens[callerId] =
                   [user_id |-> callerId, access_token |-> tokens.access_token,
                    refresh_token |-> IF tokens.refresh_token # NULL
                                      THEN tokens.refresh_token
                                      ELSE StoredRefreshToken(callerId)]
             /\ \A u \in DOMAIN pre.user_tokens \ {callerId} :
                   db.user_tokens[u] = pre.user_tokens[u]

\* C16 witness: the caller had a stored refresh token, the new credentials carry
\* an access token and no refresh token, and the stored refresh token is kept
C16_Witness ==
    /\ pc = "done"
    /\ ~Falsy(tokens.access_token)
    /\ tokens.refresh_token = NULL
    /\ StoredRefreshToken(callerId) # NULL
    /\ db.user_tokens[callerId].refresh_token = StoredRefreshToken(callerId)

\* a sync returned its summary although the credentials carry no access token
C16_NoTokenSyncReturns ==
    /\ pc = "done"
    /\ Falsy(tokens.access_token)
    /\ callerId \in DOMAIN pre.user_tokens
    /\ db.users # pre.users

\* the listed classrooms that have an id and a name, in provider order
OwnedCourses == SelectSeq(teacherCourses, HasIdAndName)

\* C17: the summary of a returned teacher sync has one entry per listed
\* classroom that has an id and a name, in the order of the list, carrying the
\* classroom's id, name and section, and as studentCount the length of the
\* student roster fetched for that classroom.
C17_TeacherSummary ==
    TeacherSyncDone =>
        /\ Len(summary) = Len(OwnedCourses)
        /\ Len(courseBundles) = Len(OwnedCourses)
        /\ \A i \in DOMAIN summary :
              /\ courseBundles[i].course = OwnedCourses[i]
              /\ summary[i] =
                    [id |-> OwnedCourses[i].id, name |-> OwnedCourses[i].name,
                     section |-> OwnedCourses[i].section,
                     studentCount |-> Len(courseBundles[i].students)]

\* C17 witness: two classrooms were listed and summarised in the listed order,
\* one of them with a roster of two students, one of whom has no full name
C17_Witness ==
    /\ TeacherSyncDone
    /\ Len(teacherCourses) = 2
    /\ Len(summary) = 2
    /\ summary[1].id = teacherCourses[1].id
    /\ summary[1].id # summary[2].id
    /\ summary[2].studentCount = 2
    /\ \E k \in DOMAIN courseBundles[2].students :
          toProfile(courseBundles[2].students[k].profile) = NoProfile

\* a course without a name was listed first and is not in the summary
C17_SkippedCourse ==
    /\ TeacherSyncDone
    /\ Len(teacherCourses) = 2
    /\ ~HasIdAndName(teacherCourses[1])
    /\ Len(summary) = 1
    /\ summary[1].id = teacherCourses[2].id

RECURSIVE Concatenation(_)
\* the entries of the pages that carry a list, page after page
Concatenation(pages) ==
    IF pages = <<>> THEN <<>>
    ELSE (IF Head(pages).present THEN Head(pages).items ELSE <<>>) \o Concatenation(Tail(pages))

\* what a loader has fetched and accumulated agrees with what the provider
\* answered: the roster is the concatenation of the pages in the order they
\* were answered; the first request carries no token and each later one the
\* token of the page before; no token is sent twice; and the loader is done
\* exactly when the latest page carries no token
Paginated(loader) ==
    /\ loader.roster = Concatenation(loader.pages)
    /\ Len(loader.sent) = Len(loader.pages)
    /\ \A k \in DOMAIN loader.sent :
          loader.sent[k] = IF k = 1 THEN NULL ELSE loader.pages[k - 1].nextPageToken
    /\ \A j, k \in DOMAIN loader.sent : loader.sent[j] = loader.sent[k] => j = k
    /\ loader.done <=>
          /\ loader.pages # <<>>
          /\ loader.pages[Len(loader.pages)].nextPageToken \in {NULL, ""}

\* C20: at every step both roster loaders are Paginated, and the rosters put
\* into a course bundle are the concatenations of the pages answered to the
\* finished loaders.
C20_PagesConcatenated ==
    [][/\ Paginated(load.teachers)' /\ Paginated(load.students)'
       /\ Len(courseBundles') > Len(courseBundles) =>
             /\ load.teachers.done /\ load.students.done
             /\ courseBundles'[Len(courseBundles')].teachers = Concatenation(load.teachers.pages)
             /\ courseBundles'[Len(courseBundles')].students = Concatenation(load.students.pages)]_vars

\* C20 witness: the teacher roster came in two pages of one teacher each and
\* the loader returned both, in that order
C20_Witness ==
    /\ load.teachers.done
    /\ Len(load.teachers.pages) = 2
    /\ Len(load.teachers.pages[1].items) = 1
    /\ Len(load.teachers.pages[2].items) = 1
    /\ load.teachers.roster = load.teachers.pages[1].items \o load.teachers.pages[2].items
    /\ load.teachers.roster[1] # load.teachers.roster[2]

\* the request was rejected, and not with the 403 a course-list probe tolerates
Rejected(request) ==
    /\ request.code # 200
    /\ ~(request.op = "courses.list" /\ request.code = 403)

\* C18: within one sync no provider request (same operation, same argument,
\* same page token) is made twice, and a rejected request, other than a 403 on
\* a course-list probe, is the last request of the sync, which has failed
\* without a transaction, without a write and with the tables as they were.
C18_NoRetry ==
    /\ \A i, j \in DOMAIN requests :
          (/\ requests[i].op = requests[j].op
           /\ requests[i].arg = requests[j].arg
           /\ requests[i].pageToken = requests[j].pageToken) => i = j
    /\ \A i \in DOMAIN requests :
          Rejected(requests[i]) =>
              /\ i = Len(requests)
              /\ pc = "failed"
              /\ ~inTx
              /\ writes = 0
              /\ db = pre

\* C18 witness: the second page of a roster was rejected with 403 after the
\* first page had been answered, and the sync failed without retrying
C18_Witness ==
    /\ pc = "failed"
    /\ requests # <<>>
    /\ LET lastRequest == requests[Len(requests)]
       IN  /\ lastRequest.op = "students.list"
           /\ lastRequest.pageToken = PageToken(1)
           /\ lastRequest.code = 403
           /\ \E i \in DOMAIN requests :
                 /\ requests[i].op = "students.list"
                 /\ requests[i].pageToken = NULL
                 /\ requests[i].code = 200

\* a sync has been started and has neither returned nor thrown
Running == pc \in {"exchange", "profile", "probeT", "probeS", "run"}

\* C19: when every call settles and every roster has finitely many pages, a
\* started sync eventually returns its summary or fails.
C19_SyncEnds == Running ~> pc \in {"done", "failed"}

\* C19 witness: a teacher sync whose rosters took more than one page each has
\* returned
C19_Witness ==
    /\ TeacherSyncDone
    /\ \E i, j \in DOMAIN requests :
          /\ requests[i].op = "teachers.list" /\ requests[i].pageToken # NULL
          /\ requests[j].op = "students.list" /\ requests[j].pageToken # NULL

RECURSIVE RunStatements(_, _, _)
\* the tables after the statements from the i-th on, run by a session that is alone
RunStatements(t, stmts, i) ==
    IF i > Len(stmts) THEN t ELSE RunStatements(Apply(stmts[i], t), stmts, i + 1)

\* the tables after a sync with the given data has run alone and committed
RunSession(t, d) == RunStatements(t, SessionStatements(d), 1)

\* the course rows, the teacher associations and the enrollment rows
Outcome(t) == <<t.courses, t.course_teachers, t.students>>

AllEnded == \A s \in Sessions : sessions[s].pc \in {"committed", "aborted"}

BothCommitted == \A s \in Sessions : sessions[s].pc = "committed"

\* when neither sync was ended by the database, the outcome is that of one of
\* the two orders
C14_CommittedSerialized ==
    BothCommitted =>
        \/ Outcome(db) = Outcome(RunSession(RunSession(pre, sessions[1].data), sessions[2].data))
        \/ Outcome(db) = Outcome(RunSession(RunSession(pre, sessions[2].data), sessions[1].data))

\* two syncs of co-teachers of the classroom wait for each other's users row
C14_Deadlocked == Blocked(1) /\ Blocked(2)

\* one sync was ended by the database and the other one committed
C14_OneAborted ==
    \E s \in Sessions : sessions[s].pc = "aborted" /\ sessions[Other(s)].pc = "committed"

\* statement by statement, a sync that is alone writes what the steps of Spec write
StatementsAgree ==
    \A s \in Sessions : RunSession(db, sessions[s].data) = SyncWrites(db, sessions[s].data)

\* C21: a sync that failed after the credential exchange is answered
\* differently from a sync whose credential exchange failed.
C21_FailuresDistinguished ==
    (pc = "failed" /\ result # "threw exchange")
        => SyncResponse # SyncRoute(TRUE, "threw exchange")

\* every failure of a sync is answered with the same 500
C21_OneFailureSignal ==
    pc = "failed" => SyncResponse = [status |-> 500, error |-> SyncFailed]

\* a sync failed at the credential exchange
C21_ExchangeFailed == pc = "failed" /\ result = "threw exchange"

\* a sync failed after the credential exchange
C21_SyncFailed == pc = "failed" /\ result \in {"threw provider", "threw database"}

\* C22: a returned sync leaves no stored email or avatar URL that was there
\* before replaced by null; a returned sync whose observations carry neither
\* email nor photo leaves the email and avatar URL of every user stored before
\* as they were; and loading the profile only throws when the id or the name,
\* not an optional field, is missing.
C22_OptionalFieldsKept ==
    /\ pc = "done" =>
          \A g \in DOMAIN pre.users :
             /\ pre.users[g].email # NULL => db.users[g].email # NULL
             /\ pre.users[g].avatar_url # NULL => db.users[g].avatar_url # NULL
             /\ ~Rich => /\ db.users[g].email = pre.users[g].email
                         /\ db.users[g].avatar_url = pre.users[g].avatar_url
    /\ (pc = "failed" /\ result = "threw profile")
          => Falsy(userinfo.id) \/ Falsy(userinfo.name)

\* C22 witness: the caller, stored with email and avatar URL, synced again with
\* a profile that carries neither, the sync returned and both are kept
C22_Witness ==
    /\ pc = "done"
    /\ userProfile.email = NULL
    /\ userProfile.avatarUrl = NULL
    /\ userProfile.googleUserId \in DOMAIN pre.users
    /\ pre.users[userProfile.googleUserId].email # NULL
    /\ pre.users[userProfile.googleUserId].avatar_url # NULL
    /\ db.users[userProfile.googleUserId].email = pre.users[userProfile.googleUserId].email
    /\ db.users[userProfile.googleUserId].avatar_url
          = pre.users[userProfile.googleUserId].avatar_url
    /\ db.users[userProfile.googleUserId].name # pre.users[userProfile.googleUserId].name

\* the (course id, external student id) pairs of the bundle being imported
ImportedPairs(bundles) ==
    {<<bundles[b].course.id, bundles[b].students[i].userId>> :
        b \in DOMAIN bundles, i \in 1..1}

\* C23: an import only changes enrollment rows of the (course id, external
\* student id) pairs it imports: a row stored for another pair stays as it was.
C23_EnrollmentIdInjective ==
    [][\A k \in DOMAIN db.students :
          (k \in DOMAIN db'.students /\ db'.students[k] # db.students[k])
              => <<db.students[k].course_id, db.students[k].google_user_id>>
                     \in ImportedPairs(courseBundles')]_vars

\* two different pairs are stored under one enrollment id
C23_Collision ==
    \E c1, c2 \in OpaqueCourseIds, g1, g2 \in OpaqueUserIds :
        /\ <<c1, g1>> # <<c2, g2>>
        /\ StudentRowId(c1, g1) = StudentRowId(c2, g2)
        /\ StudentRowId(c1, g1) \in DOMAIN db.students

\* the records of one student in sessions of one course under one folded name
SameSectionRecords(courseId, name, studentId) ==
    {k \in DOMAIN att.attendance_records :
        /\ att.attendance_records[k].student_id = studentId
        /\ att.sessions[att.attendance_records[k].session_id].course_id = courseId
        /\ Lower(Trim(att.sessions[att.attendance_records[k].session_id].name)) = name}

\* C24: no student has two attendance records among the sessions of one
\* course whose names are equal after trimming and case-folding.
C24_NoDuplicateRecords ==
    \A k1, k2 \in DOMAIN att.attendance_records :
        LET r1 == att.attendance_records[k1]
            r2 == att.attendance_records[k2]
        IN  k2 \in SameSectionRecords(att.sessions[r1.session_id].course_id,
                                      Lower(Trim(att.sessions[r1.session_id].name)),
                                      r1.student_id)
              => k1 = k2

\* two sessions of one course with the same folded name hold a record of the
\* same student: two requests passed the duplicate check before either committed
C24_DuplicateAcrossSessions ==
    \E k1, k2 \in DOMAIN att.attendance_records :
        /\ att.attendance_records[k1].session_id # att.attendance_records[k2].session_id
        /\ k2 \in SameSectionRecords(
                     att.sessions[att.attendance_records[k1].session_id].course_id,
                     Lower(Trim(att.sessions[att.attendance_records[k1].session_id].name)),
                     att.attendance_records[k1].student_id)

\* a duplicate check that found a row answers 409
C24_DuplicateRejected ==
    \E h \in Handlers : handlers[h].route = "POST /api/sessions" /\ handlers[h].status = 409

\* C25: every stored session has at least one attendance record.
C25_NoEmptySession ==
    \A sid \in DOMAIN att.sessions :
        \E k \in DOMAIN att.attendance_records : att.attendance_records[k].session_id = sid

\* handler h has just taken a request of the route
Took(h, route) ==
    handlers'[h].route = route /\ handlers'[h].served = handlers[h].served + 1

\* the request names a stored record and comes from a teacher of the course of
\* the record's session
MayDelete(req) ==
    /\ req.role = "teacher"
    /\ ~Falsy(req.userId)
    /\ IsUuid(req.recordId)
    /\ req.recordId.names \in DOMAIN att.attendance_records
    /\ <<att.sessions[att.attendance_records[req.recordId.names].session_id].course_id,
          req.userId>> \in db.course_teachers

\* the attendance tables change only by a commit of a handler that is past the checks
DeletesOnlyAfterChecks ==
    att' # att => \E h \in Handlers : handlers[h].pc \in {"insert", "commit"}
                                        /\ handlers'[h].pc = "answered"

\* C26: a deletion request that does not come from a teacher of the course of
\* the record's session is answered 400, 403 or 404 and leaves the attendance
\* tables as they are; only a request that does gets to the deletion.
C26_DeleteOnlyByCourseTeacher ==
    [][/\ \A h \in Handlers :
             Took(h, "DELETE /api/attendance-records") =>
                IF MayDelete(handlers'[h].req)
                THEN handlers'[h].pc = "delete"
                ELSE /\ handlers'[h].pc = "answered"
                     /\ handlers'[h].status \in {400, 403, 404}
                     /\ att' = att
       /\ DeletesOnlyAfterChecks]_vars

\* what holds of the route: as C26, with 500 for an id that passes the pattern
\* of the route and that the database does not read as a uuid
C26_DeleteOnlyByCourseTeacherOr500 ==
    [][/\ \A h \in Handlers :
             Took(h, "DELETE /api/attendance-records") =>
                IF MayDelete(handlers'[h].req)
                THEN handlers'[h].pc = "delete"
                ELSE /\ handlers'[h].pc = "answered"
                     /\ handlers'[h].status \in {400, 403, 404, 500}
                     /\ handlers'[h].status = 500
                           <=> /\ handlers'[h].req.role = "teacher"
                               /\ isPotentialUuid(handlers'[h].req.recordId)
                               /\ ~IsUuid(handlers'[h].req.recordId)
                     /\ att' = att
       /\ DeletesOnlyAfterChecks]_vars

\* a deletion request with an id of 32 hyphens was answered 500
C26_MalformedIdAnswered500 ==
    \E h \in Handlers :
        /\ handlers[h].route = "DELETE /api/attendance-records"
        /\ handlers[h].status = 500
        /\ ~IsUuid(handlers[h].req.recordId)

\* a teacher of another course was answered 403 and a teacher of the course 204
C26_Decided ==
    \E h1, h2 \in Handlers :
        /\ handlers[h1].route = "DELETE /api/attendance-records"
        /\ handlers[h1].status = 403 /\ handlers[h1].req.role = "teacher"
        /\ handlers[h2].route = "DELETE /api/attendance-records"
        /\ handlers[h2].status = 204

\* the requester is the student linked to the enrollment row or a teacher of
\* its course
MayReadSummary(req) ==
    /\ req.studentId \in DOMAIN db.students
    /\ ~Falsy(req.userId)
    /\ \/ req.role = "student" /\ db.students[req.studentId].user_id = req.userId
       \/ req.role = "teacher"
          /\ <<db.students[req.studentId].course_id, req.userId>> \in db.course_teachers

\* C27: a request for the summary of an enrollment row is answered with the
\* summary only when it comes from the student linked to the row or from a
\* teacher of the row's course; any other request for a stored row is answered
\* 400 or 403, and every request that is not answered 200 gets no summary data.
C27_SummaryOnlyToLinked ==
    \A h \in Handlers :
        (handlers[h].route = "GET /api/students" /\ handlers[h].pc = "answered") =>
            /\ handlers[h].status = 200 <=> MayReadSummary(handlers[h].req)
            /\ handlers[h].status = 200 =>
                  handlers[h].body = <<StudentSummary(db, att, handlers[h].req.studentId)>>
            /\ handlers[h].status # 200 => handlers[h].body = <<>>
            /\ (handlers[h].req.studentId \in DOMAIN db.students /\ handlers[h].status # 200)
                  => handlers[h].status \in {400, 403}

\* C27 witness: a student read their own summary with its record, and a
\* teacher of another course was answered 403 for the same row
C27_Witness ==
    \E h1, h2 \in Handlers :
        /\ handlers[h1].route = "GET /api/students" /\ handlers[h1].status = 200
        /\ handlers[h1].req.role = "student"
        /\ handlers[h1].body[1].totalSessions = 1
        /\ handlers[h2].route = "GET /api/students" /\ handlers[h2].status = 403
        /\ handlers[h2].req.role = "teacher"
        /\ handlers[h2].req.studentId = handlers[h1].req.studentId

\* C28: every student row of a roster answered 200 belongs to a course that
\* the userId of the request is a teacher of.
C28_RosterOnlyToCourseTeacher ==
    \A h \in Handlers :
        (handlers[h].route = "GET /api/roster" /\ handlers[h].status = 200) =>
            \A row \in handlers[h].body[1] :
                <<row.courseId, handlers[h].req.userId>> \in db.course_teachers

\* a roster request without userId was answered with the rows of every course
C28_RosterWithoutUser ==
    \E h \in Handlers :
        /\ handlers[h].route = "GET /api/roster" /\ handlers[h].status = 200
        /\ handlers[h].req.userId = NULL
        /\ \E r1, r2 \in handlers[h].body[1] : r1.courseId # r2.courseId

\* with both courseId and userId in the request, only a teacher of the course
\* is answered its roster
C28_CheckedWhenBothGiven ==
    \A h \in Handlers :
        (/\ handlers[h].route = "GET /api/roster" /\ handlers[h].status = 200
         /\ ~Falsy(handlers[h].req.courseId) /\ ~Falsy(handlers[h].req.userId)) =>
            \A row \in handlers[h].body[1] :
                <<row.courseId, handlers[h].req.userId>> \in db.course_teachers

\* the enrollment rows of a course that the finished sync stored for the
\* students of the roster it fetched
PersistedEnrollments(bundle) ==
    {k \in DOMAIN db.students :
        /\ db.students[k].course_id = bundle.course.id
        /\ \E i \in DOMAIN bundle.students :
              db.students[k].google_user_id = bundle.students[i].userId}

\* C29: the studentCount reported for a course in the teacher summary equals
\* the number of enrollment rows the sync persisted for that course, also when
\* the roster has students whose profile lacks an id or full name or who lack
\* a userId.
C29_CountIsPersistedRows ==
    TeacherSyncDone =>
        \A i \in DOMAIN summary :
            summary[i].studentCount = Cardinality(PersistedEnrollments(courseBundles[i]))

\* what the code guarantees: the count is the length of the fetched roster,
\* never less than the rows stored, and equal to them when every student of
\* the roster has a userId and a profile with id and full name
C29_CountBoundsPersistedRows ==
    TeacherSyncDone =>
        \A i \in DOMAIN summary :
            /\ summary[i].studentCount >= Cardinality(PersistedEnrollments(courseBundles[i]))
            /\ (\A k \in DOMAIN courseBundles[i].students :
                    /\ ~Falsy(courseBundles[i].students[k].userId)
                    /\ toProfile(courseBundles[i].students[k].profile) # NoProfile)
                => summary[i].studentCount = Cardinality(PersistedEnrollments(courseBundles[i]))

\* a committed teacher sync counted a student without a full name for whom no
\* enrollment row was stored
C29_CountedNotStored ==
    /\ TeacherSyncDone
    /\ \E i \in DOMAIN summary :
          /\ summary[i].studentCount = 1
          /\ PersistedEnrollments(courseBundles[i]) = {}
          /\ toProfile(courseBundles[i].students[1].profile) = NoProfile

\* a committed teacher sync counted a student without userId whose users row
\* was written and for whom no enrollment row was stored
C29_CountedWithoutUserId ==
    /\ TeacherSyncDone
    /\ \E i \in DOMAIN summary :
          /\ summary[i].studentCount = 1
          /\ PersistedEnrollments(courseBundles[i]) = {}
          /\ Falsy(courseBundles[i].students[1].userId)
          /\ toProfile(courseBundles[i].students[1].profile) # NoProfile

\* the statements of a call's log with a given text
StatementsSent(call, text) == {i \in DOMAIN call.log : call.log[i].text = text}

\* the statements of a call's log with a given text that resolved
StatementsResolved(call, text) == {i \in StatementsSent(call, text) : call.log[i].ok}

\* a statement with the given text was sent and rejected
QueryRejected(call, text) == StatementsSent(call, text) # StatementsResolved(call, text)

\* C30: withTransaction ends every transaction exactly once and releases its
\* client exactly once: COMMIT is issued only after the handler returned,
\* ROLLBACK is issued whenever BEGIN, the handler or COMMIT throws, the
\* handler's error is rethrown to the caller, and the client is released in
\* every outcome.
C30_EndedAndReleasedOnce ==
    \A h \in Handlers :
        LET call == handlers[h]
        IN  /\ StatementsSent(call, "COMMIT") # {} => call.handled = "returned"
            /\ call.released <= 1
            /\ (call.pc = "done" /\ call.client) =>
                  /\ call.released = 1
                  /\ StatementsResolved(call, "BEGIN") # {} =>
                        Cardinality(StatementsResolved(call, "COMMIT") \cup StatementsResolved(call, "ROLLBACK")) = 1
                  /\ (QueryRejected(call, "BEGIN") \/ call.handled = "threw" \/ QueryRejected(call, "COMMIT"))
                        => StatementsSent(call, "ROLLBACK") # {}
                  /\ call.handled = "threw" => call.thrown = "handler"

\* what holds in every outcome: the client is released exactly once, after
\* the last statement; COMMIT is sent at most once and only after the handler
\* returned; ROLLBACK is sent exactly once when BEGIN, the handler or COMMIT
\* threw and never otherwise; the caller gets the result after a COMMIT that
\* resolved, and the caught error when ROLLBACK resolved
C30_ReleasedOnceInOrder ==
    \A h \in Handlers :
        LET call == handlers[h]
        IN  /\ StatementsSent(call, "COMMIT") # {} => call.handled = "returned"
            /\ Cardinality(StatementsSent(call, "COMMIT")) <= 1
            /\ call.released = (IF call.pc = "done" /\ call.client THEN 1 ELSE 0)
            /\ call.pc \in {"finally", "done"} /\ call.client =>
                  /\ Cardinality(StatementsSent(call, "ROLLBACK")) =
                        (IF QueryRejected(call, "BEGIN") \/ call.handled = "threw"
                            \/ QueryRejected(call, "COMMIT") THEN 1 ELSE 0)
                  /\ StatementsResolved(call, "COMMIT") # {} <=> call.result = "value"
                  /\ StatementsResolved(call, "COMMIT") # {} <=> call.thrown = "none"
                  /\ StatementsResolved(call, "ROLLBACK") # {} => call.thrown = call.caught
            /\ ~call.client => call.log = <<>> /\ call.released = 0

\* the handler threw and ROLLBACK threw too: the caller got the error of
\* ROLLBACK, no statement ended the transaction, the client was released
C30_RollbackErrorMasksHandlerError ==
    \E h \in Handlers :
        /\ handlers[h].pc = "done"
        /\ handlers[h].handled = "threw"
        /\ QueryRejected(handlers[h], "ROLLBACK")
        /\ handlers[h].thrown = "ROLLBACK"
        /\ handlers[h].released = 1

\* COMMIT threw, ROLLBACK resolved, the caller got the error of COMMIT
C30_CommitFailedRolledBack ==
    \E h \in Handlers :
        /\ handlers[h].pc = "done"
        /\ QueryRejected(handlers[h], "COMMIT")
        /\ StatementsResolved(handlers[h], "ROLLBACK") # {}
        /\ handlers[h].thrown = "COMMIT"
        /\ handlers[h].released = 1

====
